---- MODULE Spec2Model ----
(***************************************************************************)
(* Request execution core of atlassian-cli: the bounded-concurrency bulk   *)
(* runner (crates/bulk) and the retrying request dispatcher (crates/api).  *)
(*                                                                         *)
(* Spec     : one BulkExecutor and one call of run / execute_with_results. *)
(* SpecApi  : one ApiClient and one call of request (retry_with_backoff    *)
(*            around the HTTP attempt closure).                            *)
(***************************************************************************)
EXTENDS Integers, Sequences, FiniteSets, TLC

VARIABLES
    \* ---- crates/bulk: BulkExecutor and one call on it
    requested,      \* the concurrency handed to new / from_config
    concurrency,    \* BulkExecutor.concurrency
    dry_run,        \* BulkExecutor.dry_run
    fail_fast,      \* BulkExecutor.fail_fast
    mode,           \* which method is called: "run" | "execute_with_results"
    items,          \* the items vector of the call (item values)
    job_fails,      \* the items on which the caller's job returns Err
    bpc,            \* position of the call: "idle" | "streaming" | "returned"
    task,           \* per position: "new" | "queued" | "running" | "done" | "dropped"
    permits,        \* available permits of the call's Semaphore
    invoked,        \* per position: how many times job(item) was called
    results,        \* what the collector has received, in completion order
    ret,            \* the call's return value
    successful,     \* BulkResult.successful
    failed,         \* BulkResult.failed
    \* ---- crates/api: ApiClient and one call of request
    max_retries,    \* RetryConfig.max_retries
    rl,             \* RateLimitState: remaining, limit, reset_at
    now,            \* Utc::now(), in seconds
    calls,          \* how many calls of request were made on this client
    apc,            \* position of the current call
    path_ok,        \* whether the call's path joins onto the base URL
    wake_at,        \* end of the rate-limit sleep, if one was taken
    resp,           \* the HTTP response of the attempt in progress
    attempts,       \* retry_with_backoff: attempts
    invocations,    \* how many times the operation closure was called
    sleeps,         \* how many backoff sleeps were taken
    responses,      \* how many attempts received an HTTP response
    updates,        \* how many times update_from_response ran
    last,           \* outcome of the latest attempt
    history,        \* outcomes of all attempts of the call, in order
    aret,           \* the call's return value
    \* ---- crates/api/src/ratelimit.rs: one RateLimiter on its own
    lim,            \* its RateLimitState
    clock,          \* Utc::now(), in seconds
    lop,            \* the method called last
    lhdr,           \* the three rate-limit headers of the response given last
    lres,           \* what check_limit returned last
    lwas,           \* check_limit would have returned a wait before the last operation
    lusage,         \* how the usage computation of the last update_from_response went
    \* ---- the pure functions, applied to one input
    fop,            \* the function applied
    fin,            \* its input
    fout,           \* its result
    \* ---- crates/api/src/pagination.rs: one Paginator and its callers
    src,            \* the pages the source has served, by <<start_at, max_results>>
    prev,           \* the run before this one
    p_run,          \* runs started
    p_op,           \* this run: "fetch_all", "stream" or "collect_pages"
    p_max,          \* its max_results
    p_limit,        \* its limit (collect_pages)
    ppc,            \* where the run stands
    p_start,        \* the loop's start_at
    offsets,        \* the start_at of every fetch_page call of the run, in order
    pulls,          \* stream.next() calls of the consumer
    yields,         \* elements the stream has yielded
    all_items,      \* the accumulator of fetch_all / collect_pages
    pret,           \* the run's return value
    \* ---- crates/api: tasks calling one ApiClient concurrently
    c_max,          \* retry_config.max_retries of the client
    c_rl,           \* the RateLimitState behind the Mutex
    c_holder,       \* the task holding the Mutex, 0 when it is free
    c_now,          \* Utc::now(), in seconds
    c_pc,           \* per task: where it stands
    c_att,          \* per task: attempts of retry_with_backoff
    c_wake,         \* per task: when its rate-limit sleep ends
    c_slept,        \* per task: it took the rate-limit sleep in this call
    c_reads,        \* per task: check_limit calls made in this call
    c_fresh,        \* per task: check_limit was called since its last response
    \* ---- crates/api/src/ratelimit.rs: tasks calling one RateLimiter concurrently
    m_state,        \* the RateLimitState behind the Mutex
    m_holder,       \* the task holding the Mutex, 0 when it is free
    m_pc,           \* per task: where it stands in its method
    m_hdr,          \* per task: the headers of the response it is applying
    m_seen          \* per task: the state its last check_limit / get_info read

bulkVars == <<requested, concurrency, dry_run, fail_fast, mode, items, job_fails,
              bpc, task, permits, invoked, results, ret, successful, failed>>
apiVars  == <<max_retries, rl, now, calls, apc, path_ok, wake_at, resp, attempts, invocations, sleeps, responses, updates,
              last, history, aret>>
limVars  == <<lim, clock, lop, lhdr, lres, lwas, lusage>>
pureVars == <<fop, fin, fout>>
pageVars == <<src, prev, p_run, p_op, p_max, p_limit, ppc, p_start, offsets,
              pulls, yields, all_items, pret>>
concVars == <<c_max, c_rl, c_holder, c_now, c_pc, c_att, c_wake, c_slept, c_reads,
              c_fresh>>
mutexVars == <<m_state, m_holder, m_pc, m_hdr, m_seen>>
vars     == <<bulkVars, apiVars, limVars, pureVars, pageVars, concVars, mutexVars>>
notBulk  == <<apiVars, limVars, pureVars, pageVars, concVars, mutexVars>>
notApi   == <<bulkVars, limVars, pureVars, pageVars, concVars, mutexVars>>
notLim   == <<bulkVars, apiVars, pureVars, pageVars, concVars, mutexVars>>
notPure  == <<bulkVars, apiVars, limVars, pageVars, concVars, mutexVars>>
notPage  == <<bulkVars, apiVars, limVars, pureVars, concVars, mutexVars>>
notConc  == <<bulkVars, apiVars, limVars, pureVars, pageVars, mutexVars>>
notMutex == <<bulkVars, apiVars, limVars, pureVars, pageVars, concVars>>

-----------------------------------------------------------------------------
(* Bounds of the model *)
MaxItems == 3
MaxConcurrency == 2
MaxRetriesBound == 3
MaxTime == 3
MaxCalls == 2
MaxClock == 3
MaxPageSize == 2
MaxFetches == 3
MaxLimit == 3
MaxTotal == 3
MaxRuns == 2
MaxCallers == 2
MaxConcRetries == 2
MaxConcTime == 2
MaxSleeps == 4

Max(a, b) == IF a >= b THEN a ELSE b


-----------------------------------------------------------------------------
(* crates/bulk/src/lib.rs *)

Positions == 1..Len(items)

\* enumerate() numbers the items from zero
Idx(p) == p - 1

Unit == <<"unit", 0>>
NoError == <<"none", 0>>
\* what the caller's job returns for an item it fails on / succeeds on
JobError(item) == <<"job error on item", item>>
JobOutput(item) == <<"output of item", item>>
\* anyhow!("Dry run")
DryRunError == <<"Dry run", 0>>

\* BulkExecutor::new / from_config: concurrency.max(1)
\* (faulty variant: one more than asked for)
StoredConcurrencyOffByOne(c) == c + 1
\* (faulty variant: stored as given)
StoredConcurrencyAsGiven(c) == c
StoredConcurrency(c) == Max(c, 1)

\* the futures held by buffer_unordered's in-progress queue
InFlight == {p \in Positions : task[p] \in {"queued", "running"}}
\* the jobs that have started and not yet finished
Active == {p \in Positions : task[p] = "running"}
NotAdmitted == {p \in Positions : task[p] = "new"}

\* `if dry_run` of a task: the job is skipped
\* (faulty variant: the dry_run test is missing)
SkipsJobNever == FALSE
SkipsJob == dry_run

\* Result<()> of one task of run
RunTaskResult(p) ==
    IF SkipsJob THEN [ok |-> TRUE, val |-> Unit]
    ELSE IF items[p] \in job_fails
         THEN [ok |-> FALSE, val |-> JobError(items[p])]
         ELSE [ok |-> TRUE, val |-> Unit]

\* (idx, Result<R>) of one task of execute_with_results
\* (faulty variant: the result is numbered by completion order)
ExecTaskResultByCompletion(p) ==
    LET k == Len(results)
    IN  IF SkipsJob THEN [idx |-> k, ok |-> FALSE, val |-> DryRunError]
        ELSE IF items[p] \in job_fails
             THEN [idx |-> k, ok |-> FALSE, val |-> JobError(items[p])]
             ELSE [idx |-> k, ok |-> TRUE, val |-> JobOutput(items[p])]
\* (faulty variant: a dry run counts as a success, as in run)
ExecTaskResultDryRunOk(p) ==
    IF SkipsJob THEN [idx |-> Idx(p), ok |-> TRUE, val |-> Unit]
    ELSE IF items[p] \in job_fails
         THEN [idx |-> Idx(p), ok |-> FALSE, val |-> JobError(items[p])]
         ELSE [idx |-> Idx(p), ok |-> TRUE, val |-> JobOutput(items[p])]
ExecTaskResult(p) ==
    IF SkipsJob THEN [idx |-> Idx(p), ok |-> FALSE, val |-> DryRunError]
    ELSE IF items[p] \in job_fails
         THEN [idx |-> Idx(p), ok |-> FALSE, val |-> JobError(items[p])]
         ELSE [idx |-> Idx(p), ok |-> TRUE, val |-> JobOutput(items[p])]

TaskResult(p) == IF mode = "run" THEN RunTaskResult(p) ELSE ExecTaskResult(p)

IsOk(r) == r.ok
IsErr(r) == ~r.ok

RECURSIVE Successes(_)
Successes(rs) ==
    IF rs = <<>> THEN <<>>
    ELSE IF Head(rs).ok THEN <<Head(rs).val>> \o Successes(Tail(rs))
         ELSE Successes(Tail(rs))

RECURSIVE Failures(_)
Failures(rs) ==
    IF rs = <<>> THEN <<>>
    ELSE IF Head(rs).ok THEN Failures(Tail(rs))
         ELSE <<<<Head(rs).idx, Head(rs).val>>>> \o Failures(Tail(rs))

RetOk == [kind |-> "Ok", err |-> NoError, count |-> 0]
RetErr(e) == [kind |-> "Err", err |-> e, count |-> 0]
RetMultipleFailed(k) == [kind |-> "MultipleFailed", err |-> NoError, count |-> k]
RetNone == [kind |-> "none", err |-> NoError, count |-> 0]

\* run, after the stream ended: the fail_fast / collect branches
RunReturn(rs) ==
    IF fail_fast THEN RetOk
    ELSE LET failures == SelectSeq(rs, IsErr)
         IN IF failures # <<>> THEN RetMultipleFailed(Len(failures)) ELSE RetOk

\* try_collect of run's fail_fast branch stops at the first Err
\* (faulty variants: collect() in place of try_collect(), and the reverse)
AbortsOnNothing(r) == FALSE
AbortsOnAnyError(r) == mode = "run" /\ ~r.ok
\* (faulty variant: execute_with_results stops on a failed job too)
AbortsOnInBothModes(r) == fail_fast /\ ~r.ok
AbortsOn(r) == mode = "run" /\ fail_fast /\ ~r.ok

\* the stream is dropped: its pending futures are dropped with it, and a
\* dropped future gives back the permit it holds
\* (faulty variant: the pending futures outlive the stream)
DropStreamKeepsPending(t) == t
DropStream(t) ==
    [p \in DOMAIN t |-> IF t[p] \in {"queued", "running"} THEN "dropped" ELSE t[p]]

\* The collector receives result r of task p; held is the number of free
\* permits once p's permit is back.
Deliver(p, r, held) ==
    LET rs == Append(results, r)
        t1 == [task EXCEPT ![p] = "done"]
    IN  /\ results' = rs
        /\ IF AbortsOn(r)
           THEN /\ task' = DropStream(t1)
                /\ permits' = held + Cardinality({q \in Positions : t1[q] = "running"})
                /\ bpc' = "returned"
                /\ ret' = RetErr(r.val)
                /\ UNCHANGED <<successful, failed>>
           ELSE IF \A q \in Positions : t1[q] = "done"
           THEN /\ task' = t1
                /\ permits' = held
                /\ bpc' = "returned"
                /\ IF mode = "run"
                   THEN /\ ret' = RunReturn(rs)
                        /\ UNCHANGED <<successful, failed>>
                   ELSE /\ ret' = RetOk
                        /\ successful' = Successes(rs)
                        /\ failed' = Failures(rs)
           ELSE /\ task' = t1
                /\ permits' = held
                /\ UNCHANGED <<bpc, ret, successful, failed>>

\* `if items.is_empty()` at the top of run and execute_with_results
\* (faulty variant: the test is missing)
ReturnsAtOnceNever(its) == FALSE
ReturnsAtOnce(its) == its = <<>>

\* run(items, job) / execute_with_results(items, job) is called
Call(m, its, fs) ==
    /\ bpc = "idle"
    /\ mode' = m
    /\ items' = its
    /\ job_fails' = fs
    /\ invoked' = [p \in 1..Len(its) |-> 0]
    /\ results' = <<>>
    /\ UNCHANGED <<successful, failed>>
    /\ IF ReturnsAtOnce(its)
       THEN /\ bpc' = "returned"
            /\ ret' = RetOk
            /\ task' = <<>>
            /\ UNCHANGED permits
       ELSE /\ bpc' = "streaming"
            /\ permits' = concurrency
            /\ task' = [p \in 1..Len(its) |-> "new"]
            /\ UNCHANGED ret
    /\ UNCHANGED <<requested, concurrency, dry_run, fail_fast>>

\* buffer_unordered pulls the next future from the iterator while its queue
\* holds fewer than `concurrency` futures
CanAdmit == bpc = "streaming" /\ NotAdmitted # {} /\ Cardinality(InFlight) < concurrency

Admit ==
    /\ CanAdmit
    /\ LET p == CHOOSE q \in NotAdmitted : \A o \in NotAdmitted : q <= o
       IN task' = [task EXCEPT ![p] = "queued"]
    /\ UNCHANGED <<requested, concurrency, dry_run, fail_fast, mode, items, job_fails,
                   bpc, permits, invoked, results, ret, successful, failed>>

\* the in-progress queue is polled once the queue is full or the iterator is empty
CanPoll == bpc = "streaming" /\ ~CanAdmit

\* first poll of a task's future: acquire a permit, then dry-run or call the job
Start(p) ==
    /\ CanPoll
    /\ task[p] = "queued"
    /\ permits > 0
    /\ IF SkipsJob
       THEN /\ Deliver(p, TaskResult(p), permits)
            /\ UNCHANGED invoked
       ELSE /\ task' = [task EXCEPT ![p] = "running"]
            /\ permits' = permits - 1
            /\ invoked' = [invoked EXCEPT ![p] = @ + 1]
            /\ UNCHANGED <<bpc, results, ret, successful, failed>>
    /\ UNCHANGED <<requested, concurrency, dry_run, fail_fast, mode, items, job_fails>>

\* `_permit` goes out of scope when the task's block ends, by Ok or by Err: the
\* permits free once task's result r is out
\* (faulty variant: a failed task keeps its permit)
PermitsAfterKeptOnErr(r) == IF r.ok THEN permits + 1 ELSE permits
PermitsAfter(r) == permits + 1

\* the job of task p returns; the task ends and its result reaches the collector
Finish(p) ==
    /\ CanPoll
    /\ task[p] = "running"
    /\ Deliver(p, TaskResult(p), PermitsAfter(TaskResult(p)))
    /\ UNCHANGED <<requested, concurrency, dry_run, fail_fast, mode, items, job_fails,
                   invoked>>

\* the item vectors tried: <<>>, <<1>>, <<1, 2>>, ... (item = zero-based index + 1)
ItemVectors == {[p \in 1..n |-> p] : n \in 0..MaxItems}

InitBulk ==
    /\ requested \in 0..MaxConcurrency
    /\ concurrency = StoredConcurrency(requested)
    /\ dry_run \in BOOLEAN
    /\ fail_fast \in BOOLEAN
    /\ mode = "run"
    /\ items = <<>>
    /\ job_fails = {}
    /\ bpc = "idle"
    /\ task = <<>>
    /\ permits = 0
    /\ invoked = <<>>
    /\ results = <<>>
    /\ ret = RetNone
    /\ successful = <<>>
    /\ failed = <<>>

CallAny ==
    \E m \in {"run", "execute_with_results"}, its \in ItemVectors,
          fs \in SUBSET (1..MaxItems) :
            /\ \A i \in fs : \E p \in DOMAIN its : its[p] = i
            /\ Call(m, its, fs)

-----------------------------------------------------------------------------
(* crates/api/src/error.rs, retry.rs, ratelimit.rs, lib.rs *)

\* Option::None of the Option<u32> / Option<DateTime> / Option<Duration> fields
None == -1

\* a Result<T, ApiError>: kind "Ok" or the ApiError variant, with its fields
Outcome(kind, status, retry_after, n) ==
    [kind |-> kind, status |-> status, retry_after |-> retry_after, attempts |-> n,
     cause |-> "none"]
NoOutcome == Outcome("none", 0, 0, 0)

\* ApiError::RequestFailed(reqwest::Error), with what made send() fail: the
\* client-wide timeout elapsing, or the connection failing
SendFailures == {"timeout", "connect"}
RequestFailed(cause) == [Outcome("RequestFailed", 0, 0, 0) EXCEPT !.cause = cause]

\* ApiError::is_retryable
\* (faulty variant: every error is retried)
is_retryable_any_error(e) == TRUE
is_retryable(e) ==
    \/ e.kind = "RateLimitExceeded"
    \/ e.kind = "ServerError" /\ e.status >= 500
    \/ e.kind = "Timeout"

\* StatusCode::is_server_error / is_success
is_server_error(status) == status >= 500 /\ status <= 599
is_success(status) == status >= 200 /\ status <= 299

\* the match on the response status in ApiClient::request; retry_after is the
\* parsed `retry-after` header (None when absent or unparsable), decodes tells
\* whether the body decodes as T
\* (faulty variant: every 4xx status is a BadRequest)
ClassifyAny4xxAsBadRequest(status, retry_after, decodes) ==
    IF status >= 400 /\ status <= 499 THEN Outcome("BadRequest", 0, 0, 0)
    ELSE IF is_server_error(status) THEN Outcome("ServerError", status, 0, 0)
    ELSE IF is_success(status)
         THEN IF decodes THEN Outcome("Ok", status, 0, 0)
              ELSE Outcome("InvalidResponse", 0, 0, 0)
    ELSE Outcome("ServerError", status, 0, 0)
Classify(status, retry_after, decodes) ==
    IF status = 401 THEN Outcome("AuthenticationFailed", 0, 0, 0)
    ELSE IF status = 404 THEN Outcome("NotFound", 0, 0, 0)
    ELSE IF status = 400 THEN Outcome("BadRequest", 0, 0, 0)
    ELSE IF status = 429
         THEN Outcome("RateLimitExceeded", 0,
                      IF retry_after = None THEN 60 ELSE retry_after, 0)
    ELSE IF is_server_error(status) THEN Outcome("ServerError", status, 0, 0)
    ELSE IF is_success(status)
         THEN IF decodes THEN Outcome("Ok", status, 0, 0)
              ELSE Outcome("InvalidResponse", 0, 0, 0)
    ELSE Outcome("ServerError", status, 0, 0)

NoHeaders == [limit |-> None, remaining |-> None, reset |-> None]
NoResponse == [status |-> 0, retry_after |-> None, decodes |-> TRUE, headers |-> NoHeaders]

\* RateLimiter::new
NewRateLimitState == [remaining |-> None, limit |-> None, reset_at |-> None]

\* RateLimiter::update_from_response; h holds the parsed value of each of the
\* three headers, None when the header is absent or does not parse
\* (faulty variant: the state is replaced by what the response carries)
update_replaces_all(state, h) ==
    [limit |-> h.limit, remaining |-> h.remaining, reset_at |-> h.reset]
update_from_response(state, h) ==
    [limit     |-> IF h.limit # None THEN h.limit ELSE state.limit,
     remaining |-> IF h.remaining # None THEN h.remaining ELSE state.remaining,
     reset_at  |-> IF h.reset # None THEN h.reset ELSE state.reset_at]

\* RateLimiter::check_limit: Some(wait_secs) or None
\* (faulty variant: >= in place of >)
check_limit_at_reset(state, t) ==
    IF /\ state.remaining # None
       /\ state.remaining = 0
       /\ state.reset_at # None
       /\ state.reset_at >= t
    THEN state.reset_at - t
    ELSE None
check_limit(state, t) ==
    IF /\ state.remaining # None
       /\ state.remaining = 0
       /\ state.reset_at # None
       /\ state.reset_at > t
    THEN state.reset_at - t
    ELSE None

\* RetryConfig::backoff builds the generator with max_elapsed_time: None
max_elapsed_time == None

\* ExponentialBackoff::next_backoff gives up (returns None) only once a
\* max_elapsed_time is set and has passed
\* (faulty variant: the generator runs out at once)
BackoffGivesUpAtOnce == TRUE
BackoffGivesUp == max_elapsed_time # None

\* the guard of the retry arm: Err(err) if err.is_retryable() && attempts < max_retries
\* (faulty variant: <= in place of <)
ShouldRetryOffByOne(r) == is_retryable(r) /\ attempts <= max_retries
ShouldRetry(r) == is_retryable(r) /\ attempts < max_retries

\* which arm of the match of retry_with_backoff takes the result r of an attempt
\* (faulty variant: the retry count is tested before the result)
ArmRetryFirst(r) ==
    IF attempts < max_retries THEN "sleep" ELSE "return"
ArmOn(r, gives_up) ==
    IF r.kind = "Ok" THEN "return"
    ELSE IF ShouldRetry(r)
         THEN IF ~gives_up THEN "sleep" ELSE "timeout"
    ELSE "return"
Arm(r) == ArmOn(r, BackoffGivesUp)

\* the else branch of `if let Some(wait) = backoff.next_backoff()`, on the
\* error r of the attempt: Err(ApiError::Timeout { attempts })
\* (faulty variant: the attempt's own error is returned)
TimeoutErrorIsOriginal(r) == r
TimeoutError(r) == Outcome("Timeout", 0, 0, attempts)

\* the match of retry_with_backoff on the result r of attempt number
\* `attempts`, taking the arm `arm`
RetryStepOn(r, arm) ==
    /\ last' = r
    /\ history' = Append(history, r)
    /\ IF arm = "return"
       THEN /\ aret' = r
            /\ apc' = "returned"
            /\ UNCHANGED sleeps
       ELSE IF arm = "sleep"
       THEN /\ sleeps' = sleeps + 1
            /\ apc' = "backoff"
            /\ UNCHANGED aret
       ELSE /\ aret' = TimeoutError(r)
            /\ apc' = "returned"
            /\ UNCHANGED sleeps
RetryStep(r) == RetryStepOn(r, Arm(r))

\* what the closure does to the RateLimitState once send() returned response r:
\* update_from_response(&response), whatever the status
\* (faulty variant: only 2xx responses are fed)
FedOnSuccessOnly(state, r) ==
    IF is_success(r.status) THEN update_from_response(state, r.headers) ELSE state
Fed(state, r) == update_from_response(state, r.headers)

\* ApiClient::request after the rate-limit check: join the path onto the base
\* URL, then enter retry_with_backoff
Resolve(ok) ==
    IF ok
    THEN /\ apc' = "loop"
         /\ aret' = NoOutcome
    ELSE /\ apc' = "returned"
         /\ aret' = Outcome("InvalidUrl", 0, 0, 0)

\* ApiClient::request is called
Request(ok) ==
    /\ apc \in {"idle", "returned"}
    /\ calls < MaxCalls
    /\ calls' = calls + 1
    /\ path_ok' = ok
    /\ attempts' = 0
    /\ invocations' = 0
    /\ sleeps' = 0
    /\ responses' = 0
    /\ updates' = 0
    /\ last' = NoOutcome
    /\ history' = <<>>
    /\ resp' = NoResponse
    /\ LET wait_secs == check_limit(rl, now)
       IN IF wait_secs # None
          THEN /\ wake_at' = now + wait_secs
               /\ apc' = "rate_limit_sleep"
               /\ aret' = NoOutcome
          ELSE /\ wake_at' = None
               /\ Resolve(ok)
    /\ UNCHANGED <<max_retries, rl, now>>

\* tokio::time::sleep(Duration::from_secs(wait_secs)).await has completed
\* (faulty variant: the sleep is not awaited)
SleepOverAtOnce == TRUE
SleepOver == now >= wake_at

\* tokio::time::sleep(wait_secs) of ApiClient::request ends
RateLimitWake ==
    /\ apc = "rate_limit_sleep"
    /\ SleepOver
    /\ Resolve(path_ok)
    /\ UNCHANGED <<max_retries, rl, now, calls, path_ok, wake_at, resp, attempts,
                   invocations, sleeps, responses, updates, last, history>>

\* top of the retry loop: attempts += 1 and the operation closure is called,
\* up to req.send()
Attempt ==
    /\ apc = "loop"
    /\ attempts' = attempts + 1
    /\ invocations' = invocations + 1
    /\ apc' = "sending"
    /\ UNCHANGED <<max_retries, rl, now, calls, path_ok, wake_at, resp, sleeps,
                   responses, updates, last, history, aret>>

\* req.send() fails (connection error, client timeout): the closure returns
\* RequestFailed through `?`
SendFails(cause) ==
    /\ apc = "sending"
    /\ RetryStep(RequestFailed(cause))
    /\ UNCHANGED <<max_retries, rl, now, calls, path_ok, wake_at, resp, attempts,
                   invocations, responses, updates>>

\* req.send() returns a response
SendResponds(r) ==
    /\ apc = "sending"
    /\ resp' = r
    /\ responses' = responses + 1
    /\ apc' = "responded"
    /\ UNCHANGED <<max_retries, rl, now, calls, path_ok, wake_at, attempts,
                   invocations, sleeps, updates, last, history, aret>>

\* the rest of the closure: update_from_response, then the status match, whose
\* result goes back to the retry loop
Classified ==
    /\ apc = "responded"
    /\ rl' = Fed(rl, resp)
    /\ updates' = updates + 1
    /\ RetryStep(Classify(resp.status, resp.retry_after, resp.decodes))
    /\ UNCHANGED <<max_retries, now, calls, path_ok, wake_at, resp, attempts,
                   invocations, responses>>

\* retry_with_backoff taken by itself, over any generator: the operation
\* returns r, and next_backoff(), if the retry arm asks it, answers None
\* (gives_up) or Some(wait)
OperationReturns(r, gives_up) ==
    /\ apc = "sending"
    /\ RetryStepOn(r, ArmOn(r, gives_up))
    /\ UNCHANGED <<max_retries, rl, now, calls, path_ok, wake_at, resp, attempts,
                   invocations, responses, updates>>

\* the backoff sleep ends and the loop goes round
BackoffWake ==
    /\ apc = "backoff"
    /\ apc' = "loop"
    /\ UNCHANGED <<max_retries, rl, now, calls, path_ok, wake_at, resp, attempts,
                   invocations, sleeps, responses, updates, last, history, aret>>

\* time passes
Tick ==
    /\ now < MaxTime
    /\ now' = now + 1
    /\ UNCHANGED <<max_retries, rl, calls, apc, path_ok, wake_at, resp, attempts,
                   invocations, sleeps, responses, updates, last, history, aret>>

\* the responses tried
Statuses == {200, 302, 400, 401, 404, 429, 500, 503, 600}
HeaderSets ==
    { NoHeaders,
      [limit |-> None, remaining |-> 0, reset |-> 2],
      [limit |-> 2, remaining |-> 1, reset |-> None] }
Responses ==
    { [status |-> s, retry_after |-> ra, decodes |-> d, headers |-> h] :
        s \in Statuses, ra \in {None, 5}, d \in BOOLEAN, h \in HeaderSets }
\* retry-after is read on 429 only and the body is decoded on 2xx only
Relevant(r) ==
    /\ r.status # 429 => r.retry_after = None
    /\ ~is_success(r.status) => r.decodes

InitApi ==
    /\ max_retries \in 0..MaxRetriesBound
    /\ rl = NewRateLimitState
    /\ now = 0
    /\ calls = 0
    /\ apc = "idle"
    /\ path_ok = TRUE
    /\ wake_at = None
    /\ resp = NoResponse
    /\ attempts = 0
    /\ invocations = 0
    /\ sleeps = 0
    /\ responses = 0
    /\ updates = 0
    /\ last = NoOutcome
    /\ history = <<>>
    /\ aret = NoOutcome

-----------------------------------------------------------------------------
(* crates/api/src/ratelimit.rs: the RateLimiter as an object *)

\* a header that is present but whose text does not parse
Unparsable == -2

\* headers().get(name), to_str(), parse(): the number, or None when the
\* header is absent or its text does not parse
ParseHeader(raw) == IF raw >= 0 THEN raw ELSE None

ParsedHeaders(raw) ==
    [limit     |-> ParseHeader(raw.limit),
     remaining |-> ParseHeader(raw.remaining),
     reset     |-> ParseHeader(raw.reset)]

\* the x-ratelimit-limit / -remaining / -reset headers tried
RawHeaders ==
    [limit : {None, Unparsable, 1, 2},
     remaining : {None, Unparsable, 0, 1, 2},
     reset : {None, Unparsable, 1, 2}]

\* the limiter is exhausted at time t: check_limit would return a wait
Exhausted(state, t) == check_limit(state, t) # None

\* `(limit - remaining) as f64 / limit as f64` once both fields are on
\* record: the subtraction is on u32, so with remaining above limit it panics
\* in a build with overflow checks and wraps around in one without
UsageOutcomes(state) ==
    IF state.remaining = None \/ state.limit = None THEN {"skipped"}
    ELSE IF state.remaining > state.limit THEN {"panic", "wrapped"}
    ELSE {"computed"}

\* update_from_response(&response) on the limiter
LUpdate(raw) ==
    /\ lim' = update_from_response(lim, ParsedHeaders(raw))
    /\ lhdr' = raw
    /\ lop' = "update_from_response"
    /\ lres' = None
    /\ lwas' = Exhausted(lim, clock)
    /\ lusage' \in UsageOutcomes(lim')
    /\ UNCHANGED clock

\* check_limit() on the limiter
LCheck ==
    /\ lres' = check_limit(lim, clock)
    /\ lop' = "check_limit"
    /\ lwas' = Exhausted(lim, clock)
    /\ lusage' = "none"
    /\ UNCHANGED <<lim, clock, lhdr>>

\* time passes
LTick ==
    /\ clock < MaxClock
    /\ clock' = clock + 1
    /\ lop' = "tick"
    /\ lres' = None
    /\ lwas' = Exhausted(lim, clock)
    /\ lusage' = "none"
    /\ UNCHANGED <<lim, lhdr>>

\* RateLimiter::new()
InitLim ==
    /\ lim = NewRateLimitState
    /\ clock = 0
    /\ lop = "new"
    /\ lhdr = NoHeaders
    /\ lres = None
    /\ lwas = FALSE
    /\ lusage = "none"

LimUnused == InitLim

-----------------------------------------------------------------------------
(* crates/api/src/pagination.rs *)

\* PagedResponse<T>, or the error of a failed fetch_page (ok = FALSE);
\* is_last is "absent", "true" or "false"
Page(values, start_at, max_results, total, is_last) ==
    [ok |-> TRUE, values |-> values, start_at |-> start_at,
     max_results |-> max_results, total |-> total, is_last |-> is_last]
FetchError ==
    [ok |-> FALSE, values |-> <<>>, start_at |-> None, max_results |-> None,
     total |-> None, is_last |-> "absent"]

\* PagedResponse::has_next
\* (faulty variant: the offsets are consulted before is_last)
has_next_total_first(page) ==
    IF page.start_at # None /\ page.max_results # None /\ page.total # None
    THEN page.start_at + page.max_results < page.total
    ELSE IF page.is_last # "absent" THEN page.is_last = "false"
    ELSE FALSE
has_next(page) ==
    IF page.is_last # "absent" THEN page.is_last = "false"
    ELSE IF page.start_at # None /\ page.max_results # None /\ page.total # None
         THEN page.start_at + page.max_results < page.total
    ELSE FALSE

\* PagedResponse::next_start
\* (faulty variant: has_next is not consulted)
next_start_unguarded(page) ==
    IF page.start_at # None /\ page.max_results # None
    THEN page.start_at + page.max_results
    ELSE None
next_start(page) ==
    IF ~has_next(page) THEN None
    ELSE IF page.start_at # None /\ page.max_results # None
         THEN page.start_at + page.max_results
    ELSE None

\* start_at = next_start.unwrap_or(start_at + max_results)
NextOffset(start_at, max_results, page) ==
    IF next_start(page) # None THEN next_start(page) ELSE start_at + max_results

\* the break test of the loops: !has_next || item_count == 0
\* (faulty variant: an empty page does not stop the loop)
StopsOnLastOnly(page) == ~has_next(page)
StopsAfter(page) == ~has_next(page) \/ Len(page.values) = 0

\* the limit test of collect_pages: all_items.len() >= limit
\* (faulty variant: > in place of >=)
LimitExceeded(acc, limit) == limit # None /\ Len(acc) > limit
\* (faulty variant: an absent limit counts as reached)
LimitReachedOrAbsent(acc, limit) == limit = None \/ Len(acc) >= limit
LimitReached(acc, limit) == limit # None /\ Len(acc) >= limit

\* the generator of stream leaves its loop after the element for pg: the
\* `break` of the Err arm, and the break test of the Ok arm
\* (faulty variant: the Err arm has no break)
StreamBreaksOnLastOnly(pg) == pg.ok /\ StopsAfter(pg)
StreamBreaks(pg) == ~pg.ok \/ StopsAfter(pg)

\* the generator is suspended at `yield` until the stream is polled again
\* (faulty variant: it runs on to the next fetch_page)
YieldRunsOn == FALSE
YieldSuspends == TRUE

\* the n items a source holds from offset o on
Items(o, n) == [i \in 1..n |-> o + i]

\* the pages a source may serve for fetch_page(o, m): up to m items, with the
\* metadata absent, or marking the page as last, or as not last without
\* offsets, or counting towards a total, or counting from a start_at that is
\* always 0; or an error
PageChoices(o, m) ==
    UNION {{Page(Items(o, n), None, None, None, "absent"),
            Page(Items(o, n), o, m, None, "true"),
            Page(Items(o, n), None, None, None, "false"),
            Page(Items(o, n), o, m, MaxTotal, "absent"),
            Page(Items(o, n), 0, m, MaxTotal, "absent")} : n \in 0..m}
    \cup {FetchError}

\* the source is a function of the request: an offset asked twice is served the
\* same page
Served(o, m) ==
    IF <<o, m>> \in DOMAIN src THEN {src[<<o, m>>]} ELSE PageChoices(o, m)
Serve(o, m, pg) ==
    [k \in DOMAIN src \cup {<<o, m>>} |-> IF k = <<o, m>> THEN pg ELSE src[k]]

\* the page the k-th fetch_page call of the run returned
PageOf(k) == src[<<offsets[k], p_max>>]
LastOffset == offsets[Len(offsets)]

Ok(vs) == [kind |-> "Ok", items |-> vs]
Err == [kind |-> "Err", items |-> <<>>]
NoRet == [kind |-> "none", items |-> <<>>]
NoRun == [op |-> "none", max |-> 0, limit |-> None, offsets |-> <<>>, ret |-> NoRet]

Ops == {"fetch_all", "stream", "collect_pages"}
Limits == {None} \cup 0..MaxLimit

\* fetch_all(max_results), paginator.stream(max_results) or
\* collect_pages(paginator, max_results, limit) is called; a stream does
\* nothing until it is polled; the callers of one paginator use one page size
PCall(op, m, limit) ==
    /\ ppc \in {"idle", "returned", "ended", "dropped"}
    /\ p_run < MaxRuns
    /\ p_run > 0 => m = p_max
    /\ p_run' = p_run + 1
    /\ prev' = IF p_run = 0 THEN NoRun
               ELSE [op |-> p_op, max |-> p_max, limit |-> p_limit,
                     offsets |-> offsets, ret |-> pret]
    /\ p_op' = op
    /\ p_max' = m
    /\ p_limit' = limit
    /\ p_start' = 0
    /\ offsets' = <<>>
    /\ pulls' = 0
    /\ yields' = 0
    /\ all_items' = <<>>
    /\ pret' = NoRet
    /\ ppc' = IF op = "fetch_all" THEN "loop" ELSE "created"
    /\ UNCHANGED src

\* fetch_all: self.fetch_page(start_at, max_results) is called
FA_Fetch ==
    /\ p_op = "fetch_all"
    /\ ppc = "loop"
    /\ Len(offsets) < MaxFetches
    /\ offsets' = Append(offsets, p_start)
    /\ ppc' = "fetching"
    /\ UNCHANGED <<src, prev, p_run, p_op, p_max, p_limit, p_start, pulls, yields,
                   all_items, pret>>

\* fetch_all: fetch_page returns pg; `?`, extend, break test, next start_at
FA_Page ==
    /\ p_op = "fetch_all"
    /\ ppc = "fetching"
    /\ \E pg \in Served(LastOffset, p_max) :
       /\ src' = Serve(LastOffset, p_max, pg)
       /\ IF ~pg.ok
          THEN /\ pret' = Err
               /\ ppc' = "returned"
               /\ UNCHANGED <<all_items, p_start>>
          ELSE /\ all_items' = all_items \o pg.values
               /\ IF StopsAfter(pg)
                  THEN /\ pret' = Ok(all_items')
                       /\ ppc' = "returned"
                       /\ UNCHANGED p_start
                  ELSE /\ p_start' = NextOffset(p_start, p_max, pg)
                       /\ ppc' = "loop"
                       /\ UNCHANGED pret
       /\ UNCHANGED <<prev, p_run, p_op, p_max, p_limit, offsets, pulls, yields>>

\* the consumer calls stream.next(): the generator starts, or resumes after its
\* yield, and runs to its next fetch_page call or to its end; at the end
\* next() is None, which ends the while-let of collect_pages
S_Pull ==
    /\ p_op \in {"stream", "collect_pages"}
    /\ ppc \in {"created", "yielded"}
    /\ pulls' = pulls + 1
    /\ IF ppc = "yielded" /\ StreamBreaks(PageOf(Len(offsets)))
       THEN /\ IF p_op = "collect_pages"
               THEN ppc' = "returned" /\ pret' = Ok(all_items)
               ELSE ppc' = "ended" /\ UNCHANGED pret
            /\ UNCHANGED <<p_start, offsets>>
       ELSE /\ Len(offsets) < MaxFetches
            /\ p_start' = IF ppc = "created" THEN p_start
                          ELSE NextOffset(p_start, p_max, PageOf(Len(offsets)))
            /\ offsets' = Append(offsets, p_start')
            /\ ppc' = "fetching"
            /\ UNCHANGED pret
    /\ UNCHANGED <<src, prev, p_run, p_op, p_max, p_limit, yields, all_items>>

\* where the generator stands once it has produced the page pg
AfterYield(pg) ==
    IF YieldSuspends \/ StreamBreaks(pg) \/ Len(offsets) >= MaxFetches
    THEN /\ ppc' = "yielded"
         /\ UNCHANGED <<p_start, offsets>>
    ELSE /\ p_start' = NextOffset(p_start, p_max, pg)
         /\ offsets' = Append(offsets, p_start')
         /\ ppc' = "fetching"

\* stream: fetch_page returns pg and the generator yields Ok(values) or
\* Err(err) to the consumer that polled it
S_Page ==
    /\ p_op = "stream"
    /\ ppc = "fetching"
    /\ \E pg \in Served(LastOffset, p_max) :
       /\ src' = Serve(LastOffset, p_max, pg)
       /\ yields' = yields + 1
       /\ AfterYield(pg)
       /\ UNCHANGED <<prev, p_run, p_op, p_max, p_limit, pulls, all_items, pret>>

\* the consumer drops the stream
S_Drop ==
    /\ p_op = "stream"
    /\ ppc \in {"created", "fetching", "yielded"}
    /\ ppc' = "dropped"
    /\ UNCHANGED <<src, prev, p_run, p_op, p_max, p_limit, p_start, offsets, pulls,
                   yields, all_items, pret>>

\* collect_pages: the stream yields for pg; `result?`, extend, then the limit
\* test with truncate and break
C_Page ==
    /\ p_op = "collect_pages"
    /\ ppc = "fetching"
    /\ \E pg \in Served(LastOffset, p_max) :
       /\ src' = Serve(LastOffset, p_max, pg)
       /\ yields' = yields + 1
       /\ IF ~pg.ok
          THEN /\ pret' = Err
               /\ ppc' = "returned"
               /\ UNCHANGED <<all_items, p_start, offsets>>
          ELSE LET acc == all_items \o pg.values
               IN  IF LimitReached(acc, p_limit)
                   THEN /\ all_items' = SubSeq(acc, 1, p_limit)
                        /\ pret' = Ok(all_items')
                        /\ ppc' = "returned"
                        /\ UNCHANGED <<p_start, offsets>>
                   ELSE /\ all_items' = acc
                        /\ AfterYield(pg)
                        /\ UNCHANGED pret
       /\ UNCHANGED <<prev, p_run, p_op, p_max, p_limit, pulls>>

\* a paginator nobody has called
InitPage ==
    /\ src = <<>>
    /\ prev = NoRun
    /\ p_run = 0
    /\ p_op = "none"
    /\ p_max = 0
    /\ p_limit = None
    /\ ppc = "idle"
    /\ p_start = 0
    /\ offsets = <<>>
    /\ pulls = 0
    /\ yields = 0
    /\ all_items = <<>>
    /\ pret = NoRet

PageUnused == InitPage

-----------------------------------------------------------------------------
(* crates/api/src/lib.rs, ratelimit.rs, retry.rs: concurrent callers *)

\* the tasks that call the one ApiClient
Callers == 1..MaxCallers
NoTask == 0

\* the responses the server gives: a success, a non-retryable and a retryable
\* failure, each with the rate-limit headers absent, exhausted or replenished
ConcResponses ==
    { [status |-> s, retry_after |-> None, decodes |-> TRUE, headers |-> h] :
        s \in {200, 404, 429}, h \in HeaderSets }

\* the guard of `let state = self.state.lock().await` is dropped when the
\* method returns, before the caller's next await
\* (faulty variant: the guard outlives the method)
GuardOutlivesMethod == FALSE
GuardDroppedAtReturn == TRUE

\* the holder of the Mutex once task t leaves a RateLimiter method
AfterMethod(t) == IF GuardDroppedAtReturn THEN NoTask ELSE t

\* a task calls ApiClient::request: up to self.state.lock().await of check_limit
C_Request(t) ==
    /\ c_pc[t] \in {"idle", "returned"}
    /\ c_pc' = [c_pc EXCEPT ![t] = "check_limit_lock"]
    /\ c_att' = [c_att EXCEPT ![t] = 0]
    /\ c_slept' = [c_slept EXCEPT ![t] = FALSE]
    /\ c_reads' = [c_reads EXCEPT ![t] = 0]
    /\ c_fresh' = [c_fresh EXCEPT ![t] = FALSE]
    /\ UNCHANGED <<c_max, c_rl, c_holder, c_now, c_wake>>

\* a task calls RateLimiter::get_info: up to self.state.lock().await
C_GetInfo(t) ==
    /\ c_pc[t] \in {"idle", "returned"}
    /\ c_pc' = [c_pc EXCEPT ![t] = "get_info_lock"]
    /\ UNCHANGED <<c_max, c_rl, c_holder, c_now, c_att, c_wake, c_slept, c_reads,
                   c_fresh>>

\* self.state.lock().await completes for a task waiting in one of the three
\* methods
C_Lock(t) ==
    /\ c_pc[t] \in {"check_limit_lock", "update_lock", "get_info_lock"}
    /\ c_holder = NoTask
    /\ c_holder' = t
    /\ c_pc' = [c_pc EXCEPT ![t] =
                  CASE c_pc[t] = "check_limit_lock" -> "check_limit"
                    [] c_pc[t] = "update_lock" -> "update"
                    [] OTHER -> "get_info"]
    /\ UNCHANGED <<c_max, c_rl, c_now, c_att, c_wake, c_slept, c_reads, c_fresh>>

\* the body of check_limit, its return, and request up to its next await: the
\* rate-limit sleep, or the first send of the retry loop
C_CheckLimit(t) ==
    /\ c_pc[t] = "check_limit"
    /\ c_holder' = AfterMethod(t)
    /\ c_reads' = [c_reads EXCEPT ![t] = @ + 1]
    /\ c_fresh' = [c_fresh EXCEPT ![t] = TRUE]
    /\ LET wait_secs == check_limit(c_rl, c_now)
       IN IF wait_secs # None
          THEN /\ c_pc' = [c_pc EXCEPT ![t] = "rate_limit_sleep"]
               /\ c_wake' = [c_wake EXCEPT ![t] = c_now + wait_secs]
               /\ c_slept' = [c_slept EXCEPT ![t] = TRUE]
               /\ UNCHANGED c_att
          ELSE /\ c_pc' = [c_pc EXCEPT ![t] = "sending"]
               /\ c_att' = [c_att EXCEPT ![t] = @ + 1]
               /\ UNCHANGED <<c_wake, c_slept>>
    /\ UNCHANGED <<c_max, c_rl, c_now>>

\* the body of get_info and its return
C_Info(t) ==
    /\ c_pc[t] = "get_info"
    /\ c_holder' = AfterMethod(t)
    /\ c_pc' = [c_pc EXCEPT ![t] = "returned"]
    /\ UNCHANGED <<c_max, c_rl, c_now, c_att, c_wake, c_slept, c_reads, c_fresh>>

\* tokio::time::sleep(wait_secs) ends: url.join, then the first attempt of
\* retry_with_backoff up to req.send()
C_Wake(t) ==
    /\ c_pc[t] = "rate_limit_sleep"
    /\ c_now >= c_wake[t]
    /\ c_pc' = [c_pc EXCEPT ![t] = "sending"]
    /\ c_att' = [c_att EXCEPT ![t] = @ + 1]
    /\ c_wake' = [c_wake EXCEPT ![t] = None]
    /\ UNCHANGED <<c_max, c_rl, c_holder, c_now, c_slept, c_reads, c_fresh>>

\* req.send() fails: RequestFailed leaves the closure and the retry loop
C_SendFails(t) ==
    /\ c_pc[t] = "sending"
    /\ c_pc' = [c_pc EXCEPT ![t] = "returned"]
    /\ UNCHANGED <<c_max, c_rl, c_holder, c_now, c_att, c_wake, c_slept, c_reads,
                   c_fresh>>

\* req.send() returns a response: up to self.state.lock().await of
\* update_from_response
C_Responds(t) ==
    /\ c_pc[t] = "sending"
    /\ c_pc' = [c_pc EXCEPT ![t] = "update_lock"]
    /\ UNCHANGED <<c_max, c_rl, c_holder, c_now, c_att, c_wake, c_slept, c_reads,
                   c_fresh>>

\* the body of update_from_response for response r, its return, the status
\* match and the match of retry_with_backoff, up to the backoff sleep or the
\* return of request
C_Update(t, r) ==
    /\ c_pc[t] = "update"
    /\ c_holder' = AfterMethod(t)
    /\ c_rl' = update_from_response(c_rl, r.headers)
    /\ c_fresh' = [c_fresh EXCEPT ![t] = FALSE]
    /\ LET res == Classify(r.status, r.retry_after, r.decodes)
       IN IF res.kind # "Ok" /\ is_retryable(res) /\ c_att[t] < c_max
          THEN c_pc' = [c_pc EXCEPT ![t] = "backoff"]
          ELSE c_pc' = [c_pc EXCEPT ![t] = "returned"]
    /\ UNCHANGED <<c_max, c_now, c_att, c_wake, c_slept, c_reads>>

\* the backoff sleep ends: the loop goes round, up to req.send()
C_BackoffWake(t) ==
    /\ c_pc[t] = "backoff"
    /\ c_pc' = [c_pc EXCEPT ![t] = "sending"]
    /\ c_att' = [c_att EXCEPT ![t] = @ + 1]
    /\ UNCHANGED <<c_max, c_rl, c_holder, c_now, c_wake, c_slept, c_reads, c_fresh>>

\* time passes
C_Tick ==
    /\ c_now < MaxConcTime
    /\ c_now' = c_now + 1
    /\ UNCHANGED <<c_max, c_rl, c_holder, c_pc, c_att, c_wake, c_slept, c_reads,
                   c_fresh>>

\* one ApiClient shared by the tasks, none of which has called it
InitConc ==
    /\ c_max = MaxConcRetries
    /\ c_rl = NewRateLimitState
    /\ c_holder = NoTask
    /\ c_now = 0
    /\ c_pc = [t \in Callers |-> "idle"]
    /\ c_att = [t \in Callers |-> 0]
    /\ c_wake = [t \in Callers |-> None]
    /\ c_slept = [t \in Callers |-> FALSE]
    /\ c_reads = [t \in Callers |-> 0]
    /\ c_fresh = [t \in Callers |-> FALSE]

ConcUnused ==
    /\ c_max = MaxConcRetries
    /\ c_rl = NewRateLimitState
    /\ c_holder = NoTask
    /\ c_now = 0
    /\ c_pc = <<>>
    /\ c_att = <<>>
    /\ c_wake = <<>>
    /\ c_slept = <<>>
    /\ c_reads = <<>>
    /\ c_fresh = <<>>

-----------------------------------------------------------------------------
(* crates/api/src/ratelimit.rs: the three methods called by concurrent tasks,
   update_from_response taken one field at a time *)

\* responses carrying all three rate-limit headers
FullHeaders ==
    { [limit |-> 2, remaining |-> 0, reset |-> 2],
      [limit |-> 1, remaining |-> 1, reset |-> 1] }

NothingSeen == [remaining |-> None, limit |-> None, reset_at |-> None, by |-> "none"]

\* tokio::sync::Mutex: lock().await completes only while no guard is alive
\* (faulty variant: the state is shared without the Mutex)
MutexFreeAlways == TRUE
MutexFree == m_holder = NoTask

\* a task calls update_from_response(&response), check_limit() or get_info():
\* up to self.state.lock().await
M_Call(t, method, h) ==
    /\ m_pc[t] \in {"idle", "returned"}
    /\ m_pc' = [m_pc EXCEPT ![t] = method]
    /\ m_hdr' = [m_hdr EXCEPT ![t] = IF method = "update_lock" THEN h ELSE NoHeaders]
    /\ UNCHANGED <<m_state, m_holder, m_seen>>

\* self.state.lock().await completes
M_Lock(t) ==
    /\ m_pc[t] \in {"update_lock", "check_limit_lock", "get_info_lock"}
    /\ MutexFree
    /\ m_holder' = t
    /\ m_pc' = [m_pc EXCEPT ![t] =
                  CASE m_pc[t] = "update_lock" -> "write_limit"
                    [] m_pc[t] = "check_limit_lock" -> "check_limit"
                    [] OTHER -> "get_info"]
    /\ UNCHANGED <<m_state, m_hdr, m_seen>>

\* state.limit = Some(val)
M_WriteLimit(t) ==
    /\ m_pc[t] = "write_limit"
    /\ m_state' = [m_state EXCEPT !.limit =
                     IF m_hdr[t].limit # None THEN m_hdr[t].limit ELSE @]
    /\ m_pc' = [m_pc EXCEPT ![t] = "write_remaining"]
    /\ UNCHANGED <<m_holder, m_hdr, m_seen>>

\* state.remaining = Some(val)
M_WriteRemaining(t) ==
    /\ m_pc[t] = "write_remaining"
    /\ m_state' = [m_state EXCEPT !.remaining =
                     IF m_hdr[t].remaining # None THEN m_hdr[t].remaining ELSE @]
    /\ m_pc' = [m_pc EXCEPT ![t] = "write_reset_at"]
    /\ UNCHANGED <<m_holder, m_hdr, m_seen>>

\* state.reset_at = Some(dt), the usage warning, and the return, which drops
\* the guard
M_WriteResetAt(t) ==
    /\ m_pc[t] = "write_reset_at"
    /\ m_state' = [m_state EXCEPT !.reset_at =
                     IF m_hdr[t].reset # None THEN m_hdr[t].reset ELSE @]
    /\ m_pc' = [m_pc EXCEPT ![t] = "returned"]
    /\ m_holder' = IF m_holder = t THEN NoTask ELSE m_holder
    /\ UNCHANGED <<m_hdr, m_seen>>

\* the body of check_limit (reads remaining and reset_at) or of get_info
\* (reads the three fields), and the return, which drops the guard
M_Read(t) ==
    /\ m_pc[t] \in {"check_limit", "get_info"}
    /\ m_seen' = [m_seen EXCEPT ![t] =
                    [remaining |-> m_state.remaining,
                     limit |-> IF m_pc[t] = "get_info" THEN m_state.limit ELSE None,
                     reset_at |-> m_state.reset_at,
                     by |-> m_pc[t]]]
    /\ m_pc' = [m_pc EXCEPT ![t] = "returned"]
    /\ m_holder' = IF m_holder = t THEN NoTask ELSE m_holder
    /\ UNCHANGED <<m_state, m_hdr>>

\* RateLimiter::new(), cloned into every task
InitMutex ==
    /\ m_state = NewRateLimitState
    /\ m_holder = NoTask
    /\ m_pc = [t \in Callers |-> "idle"]
    /\ m_hdr = [t \in Callers |-> NoHeaders]
    /\ m_seen = [t \in Callers |-> NothingSeen]

MutexUnused ==
    /\ m_state = NewRateLimitState
    /\ m_holder = NoTask
    /\ m_pc = <<>>
    /\ m_hdr = <<>>
    /\ m_seen = <<>>

-----------------------------------------------------------------------------
(* the pure functions of crates/api, applied to one input *)

PureUnused ==
    /\ fop = "none"
    /\ fin = <<>>
    /\ fout = <<>>

\* every status code a response can carry (http::StatusCode)
StatusCodes == 100..999

\* the variants of ApiError
ErrorKinds ==
    {"RequestFailed", "RateLimitExceeded", "AuthenticationFailed", "NotFound",
     "BadRequest", "ServerError", "InvalidUrl", "JsonError", "Timeout",
     "InvalidResponse"}

\* a response as the status match sees it: its status, the raw `retry-after`
\* header, whether its body decodes as T
ClassifyInputs ==
    [f : {"classify"}, status : StatusCodes,
     retry_after : {None, Unparsable, 0, 7, 60}, decodes : BOOLEAN]

\* an ApiError value; only ServerError carries a status
ErrorInputs ==
    {[f |-> "is_retryable", e |-> Outcome(k, st, 0, 0)] :
        k \in ErrorKinds \ {"ServerError"}, st \in {0}}
    \cup {[f |-> "is_retryable", e |-> Outcome("ServerError", st, 0, 0)] :
             st \in StatusCodes}

\* a PagedResponse as has_next reads it: each of the four metadata fields
\* present or absent
PageInputs ==
    {[f |-> "has_next", page |-> Page(<<>>, st, mx, tot, il)] :
        st \in {None, 0, 2}, mx \in {None, 0, 2}, tot \in {None, 0, 3, 4, 5},
        il \in {"absent", "true", "false"}}

\* has_next applied to the page
ApplyHasNext ==
    /\ fop = "none"
    /\ fin.f = "has_next"
    /\ fop' = "has_next"
    /\ fout' = has_next(fin.page)
    /\ UNCHANGED fin

\* the status match applied to the response
ApplyClassify ==
    /\ fop = "none"
    /\ fin.f = "classify"
    /\ fop' = "classify"
    /\ fout' = Classify(fin.status, ParseHeader(fin.retry_after), fin.decodes)
    /\ UNCHANGED fin

\* is_retryable applied to the error
ApplyIsRetryable ==
    /\ fop = "none"
    /\ fin.f = "is_retryable"
    /\ fop' = "is_retryable"
    /\ fout' = is_retryable(fin.e)
    /\ UNCHANGED fin

\* next_start applied to the page, and the offset the loops go to after it
\* when they were at offset cur with page size req
ApplyNextStart ==
    /\ fop = "none"
    /\ fin.f = "has_next"
    /\ fop' = "next_start"
    /\ \E cur \in {0, 2}, req \in {1, 2} :
          fout' = [next_start |-> next_start(fin.page), cur |-> cur, req |-> req,
                   start_at |-> NextOffset(cur, req, fin.page)]
    /\ UNCHANGED fin

\* a RetryConfig (intervals in milliseconds), the number a of the
\* next_backoff() call, and the draw of the jitter in tenths of the interval
BackoffInputs ==
    { c \in [f : {"next_backoff"}, initial_interval : {10, 20},
             max_interval : {20, 50, 80}, multiplier : {1, 2, 3},
             a : 1..MaxSleeps, random : {-1, 0, 1}] :
        c.initial_interval <= c.max_interval }

\* ExponentialBackoff: the interval after one more next_backoff(),
\* current_interval * multiplier capped at max_interval
\* (faulty variant: no cap)
increment_current_interval_uncapped(cfg, cur) == cur * cfg.multiplier
increment_current_interval(cfg, cur) ==
    IF cur * cfg.multiplier >= cfg.max_interval THEN cfg.max_interval
    ELSE cur * cfg.multiplier

\* current_interval at the a-th next_backoff() of the generator built by
\* RetryConfig::backoff (current_interval: self.initial_interval)
RECURSIVE current_interval(_, _)
current_interval(cfg, a) ==
    IF a = 1 THEN cfg.initial_interval
    ELSE increment_current_interval(cfg, current_interval(cfg, a - 1))

\* the a-th next_backoff(): current_interval moved by the draw within
\* randomization_factor: 0.1 of it
ApplyNextBackoff ==
    /\ fop = "none"
    /\ fin.f = "next_backoff"
    /\ fop' = "next_backoff"
    /\ LET cur == current_interval(fin, fin.a)
       IN fout' = [current_interval |-> cur, wait |-> cur + fin.random * (cur \div 10)]
    /\ UNCHANGED fin

InitPure ==
    /\ fop = "none"
    /\ fin \in ClassifyInputs \cup ErrorInputs \cup PageInputs \cup BackoffInputs
    /\ fout = <<>>

-----------------------------------------------------------------------------
(* Specifications *)

\* an ApiClient that is constructed and never called
ApiUnused ==
    /\ max_retries = 0
    /\ rl = NewRateLimitState
    /\ now = 0
    /\ calls = 0
    /\ apc = "idle"
    /\ path_ok = TRUE
    /\ wake_at = None
    /\ resp = NoResponse
    /\ attempts = 0
    /\ invocations = 0
    /\ sleeps = 0
    /\ responses = 0
    /\ updates = 0
    /\ last = NoOutcome
    /\ history = <<>>
    /\ aret = NoOutcome

\* a BulkExecutor that is constructed and never called
BulkUnused ==
    /\ requested = 0
    /\ concurrency = StoredConcurrency(requested)
    /\ dry_run = FALSE
    /\ fail_fast = FALSE
    /\ mode = "run"
    /\ items = <<>>
    /\ job_fails = {}
    /\ bpc = "idle"
    /\ task = <<>>
    /\ permits = 0
    /\ invoked = <<>>
    /\ results = <<>>
    /\ ret = RetNone
    /\ successful = <<>>
    /\ failed = <<>>

Init == InitBulk /\ ApiUnused /\ LimUnused /\ PureUnused /\ PageUnused /\ ConcUnused /\ MutexUnused
Next ==
    \/ CallAny /\ UNCHANGED notBulk
    \/ Admit /\ UNCHANGED notBulk
    \/ \E p \in Positions : Start(p) /\ UNCHANGED notBulk
    \/ \E p \in Positions : Finish(p) /\ UNCHANGED notBulk
Spec == Init /\ [][Next]_vars

\* the same executor under a scheduler that keeps polling the stream, with
\* jobs that all return: a future that can make progress is polled again
\* until it does
Fairness ==
    /\ WF_vars(Admit /\ UNCHANGED notBulk)
    /\ \A p \in 1..MaxItems : WF_vars(p \in Positions /\ Start(p) /\ UNCHANGED notBulk)
    /\ \A p \in 1..MaxItems : WF_vars(p \in Positions /\ Finish(p) /\ UNCHANGED notBulk)
SpecFair == Init /\ [][Next]_vars /\ Fairness

InitA == InitApi /\ BulkUnused /\ LimUnused /\ PureUnused /\ PageUnused /\ ConcUnused /\ MutexUnused
NextA ==
    \/ \E ok \in BOOLEAN : Request(ok) /\ UNCHANGED notApi
    \/ RateLimitWake /\ UNCHANGED notApi
    \/ Attempt /\ UNCHANGED notApi
    \/ \E cause \in SendFailures : SendFails(cause) /\ UNCHANGED notApi
    \/ \E r \in Responses : Relevant(r) /\ SendResponds(r) /\ UNCHANGED notApi
    \/ Classified /\ UNCHANGED notApi
    \/ BackoffWake /\ UNCHANGED notApi
    \/ Tick /\ UNCHANGED notApi
SpecApi == InitA /\ [][NextA]_vars

\* retry_with_backoff with an operation returning any result of the closure
\* and a generator that may run out
OperationResults ==
    { Classify(r.status, r.retry_after, r.decodes) : r \in {x \in Responses : Relevant(x)} }
        \cup { RequestFailed(cause) : cause \in SendFailures }
NextR ==
    \/ Request(TRUE) /\ UNCHANGED notApi
    \/ Attempt /\ UNCHANGED notApi
    \/ \E r \in OperationResults, gives_up \in BOOLEAN :
          OperationReturns(r, gives_up) /\ UNCHANGED notApi
    \/ BackoffWake /\ UNCHANGED notApi
SpecRetry == InitA /\ [][NextR]_vars

InitL == InitLim /\ BulkUnused /\ ApiUnused /\ PureUnused /\ PageUnused /\ ConcUnused /\ MutexUnused
NextL ==
    \/ \E raw \in RawHeaders : LUpdate(raw) /\ UNCHANGED notLim
    \/ LCheck /\ UNCHANGED notLim
    \/ LTick /\ UNCHANGED notLim
SpecLimiter == InitL /\ [][NextL]_vars

InitP == InitPure /\ BulkUnused /\ ApiUnused /\ LimUnused /\ PageUnused /\ ConcUnused /\ MutexUnused
NextP ==
    \/ ApplyClassify /\ UNCHANGED notPure
    \/ ApplyIsRetryable /\ UNCHANGED notPure
    \/ ApplyHasNext /\ UNCHANGED notPure
    \/ ApplyNextStart /\ UNCHANGED notPure
    \/ ApplyNextBackoff /\ UNCHANGED notPure
SpecPure == InitP /\ [][NextP]_vars

InitG == InitPage /\ BulkUnused /\ ApiUnused /\ LimUnused /\ PureUnused /\ ConcUnused /\ MutexUnused
NextG ==
    \/ \E op \in Ops, m \in 1..MaxPageSize, limit \in Limits :
          /\ (limit # None => op = "collect_pages")
          /\ PCall(op, m, limit) /\ UNCHANGED notPage
    \/ FA_Fetch /\ UNCHANGED notPage
    \/ FA_Page /\ UNCHANGED notPage
    \/ S_Pull /\ UNCHANGED notPage
    \/ S_Page /\ UNCHANGED notPage
    \/ S_Drop /\ UNCHANGED notPage
    \/ C_Page /\ UNCHANGED notPage
SpecPage == InitG /\ [][NextG]_vars

InitC == InitConc /\ BulkUnused /\ ApiUnused /\ LimUnused /\ PureUnused /\ PageUnused /\ MutexUnused
NextC ==
    \/ \E t \in Callers : C_Request(t) /\ UNCHANGED notConc
    \/ \E t \in Callers : C_GetInfo(t) /\ UNCHANGED notConc
    \/ \E t \in Callers : C_Lock(t) /\ UNCHANGED notConc
    \/ \E t \in Callers : C_CheckLimit(t) /\ UNCHANGED notConc
    \/ \E t \in Callers : C_Info(t) /\ UNCHANGED notConc
    \/ \E t \in Callers : C_Wake(t) /\ UNCHANGED notConc
    \/ \E t \in Callers : C_SendFails(t) /\ UNCHANGED notConc
    \/ \E t \in Callers : C_Responds(t) /\ UNCHANGED notConc
    \/ \E t \in Callers, r \in ConcResponses : C_Update(t, r) /\ UNCHANGED notConc
    \/ \E t \in Callers : C_BackoffWake(t) /\ UNCHANGED notConc
    \/ C_Tick /\ UNCHANGED notConc
SpecConc == InitC /\ [][NextC]_vars

InitM == InitMutex /\ BulkUnused /\ ApiUnused /\ LimUnused /\ PureUnused /\ PageUnused /\ ConcUnused
NextM ==
    \/ \E t \in Callers, h \in FullHeaders : M_Call(t, "update_lock", h) /\ UNCHANGED notMutex
    \/ \E t \in Callers, method \in {"check_limit_lock", "get_info_lock"} :
          M_Call(t, method, NoHeaders) /\ UNCHANGED notMutex
    \/ \E t \in Callers : M_Lock(t) /\ UNCHANGED notMutex
    \/ \E t \in Callers : M_WriteLimit(t) /\ UNCHANGED notMutex
    \/ \E t \in Callers : M_WriteRemaining(t) /\ UNCHANGED notMutex
    \/ \E t \in Callers : M_WriteResetAt(t) /\ UNCHANGED notMutex
    \/ \E t \in Callers : M_Read(t) /\ UNCHANGED notMutex
SpecMutex == InitM /\ [][NextM]_vars

-----------------------------------------------------------------------------
(* Properties of BulkExecutor (checked under Spec) *)

Returned == bpc = "returned"
FailingPositions == {p \in Positions : items[p] \in job_fails}
FailedResults == {k \in DOMAIN results : ~results[k].ok}

\* C1: during run or execute_with_results of an executor built with
\* concurrency c, the number of job invocations that have started and not yet
\* finished never exceeds max(1, c).
C1_ActiveAtMostConcurrency == Cardinality(Active) <= Max(1, requested)

\* more items than permits, and as many jobs running as the ceiling allows
C1_Witness ==
    /\ requested = 2
    /\ Len(items) = 3
    /\ Cardinality(Active) = 2
    /\ NotAdmitted # {}

\* C2: execute_with_results without dry-run returns a BulkResult whose failed
\* list holds exactly one (zero-based index, error) entry for each position
\* whose job failed and whose successful list holds exactly the outputs of the
\* other positions, whatever the completion order; the two lengths add up to n.
C2_IndexedPartition ==
    (Returned /\ mode = "execute_with_results" /\ ~dry_run) =>
        /\ ret = RetOk
        /\ Len(successful) + Len(failed) = Len(items)
        /\ \A p \in Positions :
             IF items[p] \in job_fails
             THEN /\ Cardinality({k \in DOMAIN failed : failed[k][1] = Idx(p)}) = 1
                  /\ \E k \in DOMAIN failed : failed[k] = <<Idx(p), JobError(items[p])>>
                  /\ \A k \in DOMAIN successful : successful[k] # JobOutput(items[p])
             ELSE /\ Cardinality({k \in DOMAIN successful :
                                    successful[k] = JobOutput(items[p])}) = 1
                  /\ \A k \in DOMAIN failed : failed[k][1] # Idx(p)

\* three items, the second and third fail, and the third completes first
C2_Witness ==
    /\ Returned /\ mode = "execute_with_results" /\ ~dry_run
    /\ Len(items) = 3
    /\ job_fails = {2, 3}
    /\ failed = <<<<2, JobError(3)>>, <<1, JobError(2)>>>>
    /\ successful = <<JobOutput(1)>>

\* C6: run with fail_fast and without dry-run returns, as its own error, the
\* error of the first task that completes with a failure (not MultipleFailed),
\* at once and without waiting for the tasks still in flight; it returns Ok when
\* no job fails.
C6_FailFastFirstError ==
    (mode = "run" /\ fail_fast /\ ~dry_run) =>
        /\ \A k \in FailedResults :
             /\ k = Len(results)
             /\ Returned
             /\ ret = RetErr(results[k].val)
        /\ (Returned /\ FailedResults = {}) => ret = RetOk
        /\ Returned => (ret.kind = "Err" <=> FailingPositions # {})
        /\ ret.kind # "MultipleFailed"

\* the second item's job fails first while the first item's job, which would
\* fail too, is still running: run returns the second item's error
C6_Witness ==
    /\ Returned /\ mode = "run" /\ fail_fast /\ ~dry_run
    /\ Len(items) = 3
    /\ job_fails = {1, 2}
    /\ ret = RetErr(JobError(2))
    /\ invoked[1] = 1 /\ task[1] = "dropped"
    /\ task[3] = "new"

\* C7: run without fail_fast and without dry-run returns only once the job was
\* invoked exactly once for every item and every invocation has finished; it
\* returns Ok iff no job failed and MultipleFailed{count} otherwise, count being
\* the number of jobs that failed.
C7_CollectAllCount ==
    (Returned /\ mode = "run" /\ ~fail_fast /\ ~dry_run) =>
        /\ \A p \in Positions : invoked[p] = 1 /\ task[p] = "done"
        /\ IF FailingPositions = {}
           THEN ret = RetOk
           ELSE ret = RetMultipleFailed(Cardinality(FailingPositions))

\* three items, two of them fail, the first failure is not the last to complete
C7_Witness ==
    /\ Returned /\ mode = "run" /\ ~fail_fast /\ ~dry_run
    /\ Len(items) = 3
    /\ job_fails = {1, 3}
    /\ ~results[1].ok /\ results[2].ok
    /\ ret = RetMultipleFailed(2)

\* C8: run with dry_run never invokes the job, whatever the items, the
\* concurrency and fail_fast, and returns Ok.
C8_DryRunRunsNothing ==
    (mode = "run" /\ dry_run) =>
        /\ \A p \in Positions : invoked[p] = 0
        /\ Active = {}
        /\ Returned => ret = RetOk

\* a dry run over three items whose jobs would all fail, fail_fast set
C8_Witness ==
    /\ Returned /\ mode = "run" /\ dry_run /\ fail_fast
    /\ Len(items) = 3
    /\ job_fails = {1, 2, 3}
    /\ Len(results) = 3

\* C9: execute_with_results with dry_run never invokes the job and returns
\* Ok(BulkResult) with successful empty and failed holding every index 0..n-1
\* exactly once, each with the "Dry run" error.
C9_DryRunAllFailed ==
    (mode = "execute_with_results" /\ dry_run) =>
        /\ \A p \in Positions : invoked[p] = 0
        /\ Returned =>
             /\ ret = RetOk
             /\ successful = <<>>
             /\ Len(failed) = Len(items)
             /\ \A p \in Positions :
                  \E k \in DOMAIN failed : failed[k] = <<Idx(p), DryRunError>>

\* a dry run over three items whose jobs would all succeed
C9_Witness ==
    /\ Returned /\ mode = "execute_with_results" /\ dry_run
    /\ Len(items) = 3
    /\ job_fails = {}
    /\ Len(failed) = 3

-----------------------------------------------------------------------------
(* Properties of retry_with_backoff and ApiClient::request (checked under SpecApi) *)

ApiReturned == apc = "returned"
RetryableByClaim(e) ==
    \/ e.kind = "RateLimitExceeded"
    \/ e.kind = "ServerError" /\ is_server_error(e.status)
NonRetryableKinds == {"AuthenticationFailed", "NotFound", "BadRequest", "InvalidResponse"}

\* C22: when run with fail_fast returns early on a failed task, the sibling
\* tasks whose job is in flight are not cancelled: none of them is dropped,
\* each is still running or has completed.
C22_SiblingsNotCancelled ==
    (mode = "run" /\ fail_fast /\ Returned /\ ret.kind = "Err") =>
        \A p \in Positions : invoked[p] > 0 => task[p] \in {"running", "done"}

\* the results of the first n tasks when the tasks run one after the other
SequentialResults(n) == [k \in 1..n |-> TaskResult(k)]

\* how many tasks a one-at-a-time execution completes before it returns
SequentialStop ==
    IF mode = "run" /\ fail_fast /\ (\E p \in Positions : ~TaskResult(p).ok)
    THEN CHOOSE p \in Positions :
            ~TaskResult(p).ok /\ \A q \in 1..(p - 1) : TaskResult(q).ok
    ELSE Len(items)

\* C23: an executor built with concurrency 0 behaves as one built with
\* concurrency 1: both store 1, never run more than one job at a time, and
\* produce the results of the one-at-a-time execution, which the items, the
\* job and the flags determine.
C23_ZeroActsAsOne ==
    requested \in {0, 1} =>
        /\ concurrency = 1
        /\ Cardinality(Active) <= 1
        /\ results = SequentialResults(Len(results))
        /\ \A p \in Positions : invoked[p] > 0 => p <= Len(results) + 1
        /\ Returned => Len(results) = SequentialStop

\* an executor asked for concurrency 0 that ran three items, the second failing
C23_Witness ==
    /\ requested = 0
    /\ Returned
    /\ mode = "execute_with_results" /\ ~dry_run
    /\ Len(items) = 3 /\ job_fails = {2}
    /\ Len(results) = 3
    /\ failed = <<<<1, JobError(2)>>>>

\* C24: on an empty item sequence run returns success and
\* execute_with_results returns a BulkResult with both lists empty, at once,
\* with no job invoked and no permit acquired, whatever dry_run, fail_fast and
\* the concurrency are.
C24_EmptyReturnsAtOnce ==
    (bpc # "idle" /\ items = <<>>) =>
        /\ Returned
        /\ ret = RetOk
        /\ successful = <<>> /\ failed = <<>>
        /\ results = <<>>
        /\ invoked = <<>> /\ task = <<>>
        /\ permits = 0

\* execute_with_results on no items, with dry_run and fail_fast set
C24_Witness ==
    /\ Returned
    /\ items = <<>>
    /\ mode = "execute_with_results"
    /\ dry_run /\ fail_fast /\ requested = 0
    /\ ret = RetOk

\* C28: in run and execute_with_results a job runs only under a permit (the
\* jobs running and the free permits always add up to `concurrency`, so at
\* most `concurrency` jobs run), a task's permit is back once the task is
\* over, by success or by failure, and when every job returns the call
\* returns, with every permit free.
C28_PermitsBalance ==
    /\ bpc = "streaming" =>
          /\ permits \in 0..concurrency
          /\ permits + Cardinality(Active) = concurrency
          /\ \A p \in Positions : invoked[p] > 0 => task[p] \in {"running", "done", "dropped"}
    /\ (Returned /\ items # <<>>) =>
          /\ permits = concurrency
          /\ Active = {}
C28_PermitReleasedAtTaskEnd ==
    \A p \in 1..MaxItems :
        (p \in Positions /\ task[p] = "running" /\ bpc = "streaming" /\ bpc' = "streaming"
            /\ task'[p] = "done") => permits' = permits + 1
C28_PermitsAndTermination ==
    /\ []C28_PermitsBalance
    /\ [][C28_PermitReleasedAtTaskEnd]_vars
    /\ (bpc = "streaming") ~> (Returned /\ permits = concurrency)

\* three items under two permits, the first two jobs failing, no fail_fast:
\* all three jobs ran and the call is back with both permits free
C28_Witness ==
    /\ Returned
    /\ Len(items) = 3 /\ concurrency = 2
    /\ ~dry_run /\ ~fail_fast
    /\ job_fails = {1, 2}
    /\ \A p \in Positions : invoked[p] = 1
    /\ permits = concurrency

\* C33: execute_with_results pays no attention to fail_fast: without dry_run
\* the job is invoked exactly once for every item, failed jobs or not, and the
\* call returns Ok with every item's result in successful or failed.
C33_ExecIgnoresFailFast ==
    (Returned /\ mode = "execute_with_results" /\ ~dry_run) =>
        /\ \A p \in Positions : invoked[p] = 1
        /\ ret = RetOk
        /\ Len(successful) + Len(failed) = Len(items)
        /\ Len(failed) = Cardinality(FailingPositions)

\* fail_fast set, three items, the first two failing: all three jobs ran
C33_Witness ==
    /\ Returned
    /\ mode = "execute_with_results"
    /\ fail_fast /\ ~dry_run
    /\ Len(items) = 3 /\ job_fails = {1, 2}
    /\ \A p \in Positions : invoked[p] = 1
    /\ ret = RetOk /\ Len(failed) = 2

\* C34: in run with fail_fast, once the collector has seen the first task
\* error nothing more is started: the call has returned that error, no future
\* is left queued or running, only admitted items had their job invoked, and
\* no invocation is made afterwards.
C34_NoStartAfterFirstError ==
    /\ [](( Returned /\ mode = "run" /\ fail_fast /\ FailedResults # {} ) =>
            /\ ret.kind = "Err"
            /\ Cardinality(FailedResults) = 1
            /\ \A p \in Positions : task[p] \notin {"queued", "running"}
            /\ \A p \in Positions : invoked[p] > 0 => task[p] \in {"done", "dropped"})
    /\ [][ (mode = "run" /\ fail_fast /\ FailedResults # {}) => invoked' = invoked ]_vars

\* three items, one at a time, the first failing: one invocation for three items
C34_Witness ==
    /\ Returned
    /\ mode = "run" /\ fail_fast /\ ~dry_run
    /\ Len(items) = 3 /\ concurrency = 1
    /\ job_fails = {1}
    /\ invoked = <<1, 0, 0>>
    /\ ret = RetErr(JobError(1))

\* C3: with max_retries = N >= 1, when every attempt ends in a rate-limit or
\* 5xx error the operation is invoked exactly N times, N-1 backoff sleeps are
\* taken, and the call returns the last attempt's error, not a Timeout.
C3_RetryCeiling ==
    ( /\ ApiReturned
      /\ max_retries >= 1
      /\ history # <<>>
      /\ \A k \in DOMAIN history : RetryableByClaim(history[k]) ) =>
        /\ invocations = max_retries
        /\ Len(history) = max_retries
        /\ sleeps = max_retries - 1
        /\ aret = history[Len(history)]
        /\ aret.kind # "Timeout"

\* three attempts, 429 then 500 then 503: the 503 is what comes back
C3_Witness ==
    /\ ApiReturned
    /\ max_retries = 3
    /\ Len(history) = 3
    /\ history[1].kind = "RateLimitExceeded"
    /\ history[2] = Outcome("ServerError", 500, 0, 0)
    /\ aret = Outcome("ServerError", 503, 0, 0)

\* C4: an authentication, not-found, bad-request or decode failure returned by
\* attempt k ends the loop at once: it is the last attempt, no sleep follows
\* it, and it is returned unchanged (k = 1: one invocation, no sleep).
C4_NonRetryableStops ==
    \A k \in DOMAIN history :
        history[k].kind \in NonRetryableKinds =>
            /\ k = Len(history)
            /\ ApiReturned
            /\ aret = history[k]
            /\ invocations = k
            /\ sleeps = k - 1

\* a first attempt that ends in 404 under max_retries = 3
C4_Witness ==
    /\ ApiReturned
    /\ max_retries = 3
    /\ history = <<Outcome("NotFound", 0, 0, 0)>>
    /\ invocations = 1
    /\ sleeps = 0

\* C5: when attempts 1..k-1 fail with retryable errors and attempt k succeeds,
\* the success is returned at once: k invocations, and none after the success.
C5_SuccessReturnsAtOnce ==
    \A k \in DOMAIN history :
        history[k].kind = "Ok" =>
            /\ k = Len(history)
            /\ \A j \in 1..(k - 1) : is_retryable(history[j])
            /\ ApiReturned
            /\ aret = history[k]
            /\ invocations = k
            /\ sleeps = k - 1

\* two retryable failures, then a success on the third attempt of three
C5_Witness ==
    /\ ApiReturned
    /\ max_retries = 3
    /\ Len(history) = 3
    /\ history[3].kind = "Ok"
    /\ aret.kind = "Ok"

\* C10 as stated: every attempt that has returned its result to the retry loop
\* has fed the RateLimiter.
C10_EveryAttemptFeeds == updates = Len(history)

\* C10, amended: an attempt that received an HTTP response feeds the RateLimiter
\* from that response, whatever the status, in the step that hands its result to
\* the retry loop; an attempt whose send failed hands RequestFailed to the loop
\* and leaves the RateLimiter as it was.
C10_EveryResponseFeeds ==
    [][ Len(history') = Len(history) + 1 =>
          IF last'.kind = "RequestFailed"
          THEN rl' = rl /\ updates' = updates
          ELSE /\ updates' = updates + 1
               /\ updates' = responses'
               /\ resp.headers.limit # None => rl'.limit = resp.headers.limit
               /\ resp.headers.remaining # None => rl'.remaining = resp.headers.remaining
               /\ resp.headers.reset # None => rl'.reset_at = resp.headers.reset
      ]_vars

\* the first attempt on a fresh client ends in 429 and its headers are on record
C10_Witness ==
    /\ calls = 1
    /\ history = <<Outcome("RateLimitExceeded", 0, 60, 0)>>
    /\ updates = 1
    /\ rl.remaining = 0 /\ rl.reset_at = 2

\* C13: a call of ApiClient::request that finds check_limit returning
\* Some(wait) sleeps wait seconds before anything else: until the sleep is
\* over no attempt is made and no result (InvalidUrl included) is returned; a
\* call that finds None goes on without sleeping.
C13_SleepsBeforeAnythingElse ==
    [][ /\ calls' = calls + 1 =>
             IF rl.remaining = 0 /\ rl.reset_at # None /\ rl.reset_at > now
             THEN /\ apc' = "rate_limit_sleep"
                  /\ wake_at' = rl.reset_at
             ELSE /\ apc' # "rate_limit_sleep"
                  /\ wake_at' = None
        /\ apc' = "rate_limit_sleep" =>
             /\ wake_at' # None
             /\ invocations' = 0 /\ responses' = 0
             /\ aret' = NoOutcome
        /\ (wake_at' # None /\ apc' # "rate_limit_sleep") => now' >= wake_at'
      ]_vars

\* a call that slept until the reset time and then sent its first attempt
C13_Witness ==
    /\ calls = 2
    /\ wake_at = 2 /\ now = 2
    /\ apc = "sending" /\ invocations = 1

\* C15: a response whose status is none of 401, 404, 400, 429, 5xx, 2xx is
\* classified as ServerError and is not retried: an attempt whose outcome is a
\* ServerError with a status outside 5xx is the call's last and the call has
\* returned.
C15_OtherStatusNotRetried ==
    \A k \in 1..Len(history) :
        (history[k].kind = "ServerError" /\ ~is_server_error(history[k].status)) =>
            (k = Len(history) /\ apc = "returned")

\* C17: an attempt that failed because the client timeout elapsed is retried
\* as long as attempts < max_retries: the call does not return on it.
C17_TimeoutRetried ==
    \A k \in 1..Len(history) :
        (history[k].cause = "timeout" /\ k < max_retries) =>
            ~(apc = "returned" /\ Len(history) = k)

\* C30: in retry_with_backoff, an attempt failing with a retryable error
\* while attempts < max_retries, with next_backoff() answering None, makes the
\* call fail with Timeout { attempts }, attempts being the invocations made so
\* far, and not with that error; every other return hands back the last
\* attempt's result as it is, so no other branch makes a Timeout.
C30_TimeoutOnlyOnExhaustedBackoff ==
    (ApiReturned /\ history # <<>>) =>
        IF ShouldRetry(last)
        THEN /\ aret = Outcome("Timeout", 0, 0, attempts)
             /\ attempts = invocations
             /\ attempts = Len(history)
             /\ aret # last
        ELSE /\ aret = last
             /\ aret.kind # "Timeout"

\* max_retries = 3: a 429 was slept on, then a 503 met an exhausted generator
\* on the second attempt, and the call came back with Timeout { attempts: 2 }
C30_Witness ==
    /\ ApiReturned
    /\ max_retries = 3
    /\ Len(history) = 2
    /\ history[1].kind = "RateLimitExceeded"
    /\ history[2] = Outcome("ServerError", 503, 0, 0)
    /\ sleeps = 1
    /\ aret = Outcome("Timeout", 0, 0, 2)

\* C35: with the generator of RetryConfig::backoff, which never runs out,
\* retry_with_backoff returns the result of its last invocation, success or
\* error, for every sequence of outcomes: a Timeout comes back only if the
\* operation itself returned one.
C35_ReturnsLastInvocation ==
    (ApiReturned /\ invocations > 0) =>
        /\ Len(history) = invocations
        /\ aret = history[invocations]
        /\ aret.kind = "Timeout" => history[invocations].kind = "Timeout"
        /\ \A k \in 1..(invocations - 1) : is_retryable(history[k])

\* max_retries = 3: 503, then a 429, then a 404, which is what comes back
C35_Witness ==
    /\ ApiReturned
    /\ max_retries = 3
    /\ invocations = 3
    /\ history[1] = Outcome("ServerError", 503, 0, 0)
    /\ history[2].kind = "RateLimitExceeded"
    /\ aret = Outcome("NotFound", 0, 0, 0)

-----------------------------------------------------------------------------
(* Properties of the RateLimiter (checked under SpecLimiter) *)

\* C11: check_limit returns Some(reset_at - now) exactly when the recorded
\* remaining is 0 and the recorded reset_at is strictly later than now, and
\* None in every other state; it leaves the state as it was.
C11_CheckLimit ==
    [][ lop' = "check_limit" =>
          /\ lim' = lim
          /\ IF lim.remaining = 0 /\ lim.reset_at # None /\ lim.reset_at > clock
             THEN lres' # None /\ lres' = lim.reset_at - clock
             ELSE lres' = None
      ]_vars

\* remaining 0 and a reset one second ahead: check_limit returned Some(1)
C11_Witness ==
    /\ lop = "check_limit"
    /\ lim.remaining = 0 /\ lim.reset_at = 2 /\ clock = 1
    /\ lres = 1

\* C12: update_from_response overwrites each of limit, remaining and reset_at
\* on its own, and only when its header is present and parses; a field whose
\* header is absent or unparsable keeps its value, and a value is replaced,
\* never combined with the earlier one.
C12_UpdateOverwritesPerField ==
    [][ lop' = "update_from_response" =>
          /\ lim'.limit = IF lhdr'.limit >= 0 THEN lhdr'.limit ELSE lim.limit
          /\ lim'.remaining =
                IF lhdr'.remaining >= 0 THEN lhdr'.remaining ELSE lim.remaining
          /\ lim'.reset_at = IF lhdr'.reset >= 0 THEN lhdr'.reset ELSE lim.reset_at
      ]_vars

\* an update carrying only a limit (the reset header does not parse) after
\* remaining and reset_at were on record
C12_Witness ==
    /\ lop = "update_from_response"
    /\ lhdr = [limit |-> 2, remaining |-> None, reset |-> Unparsable]
    /\ lim = [limit |-> 2, remaining |-> 0, reset_at |-> 1]

\* C37: update_from_response never fails, whatever the headers: the u32
\* subtraction limit - remaining never underflows, also when the remaining on
\* record is above the limit on record.
C37_UsageNeverUnderflows ==
    lop = "update_from_response" =>
        /\ lusage \in {"skipped", "computed"}
        /\ (lim.remaining # None /\ lim.limit # None) => lim.remaining <= lim.limit

\* a response brought remaining = 2 to a limiter holding limit = 1 from an
\* earlier response
C37_Witness ==
    /\ lop = "update_from_response"
    /\ lhdr.limit = None /\ lhdr.remaining = 2
    /\ lim.limit = 1 /\ lim.remaining = 2
    /\ lusage = "panic"

\* C29 as stated: an exhausted limiter (remaining 0, reset_at ahead, check_limit
\* returns a wait) is no longer exhausted once a response has been fed to it,
\* whether or not the wait elapsed, and the passage of time alone never ends
\* the exhaustion.
C29_ExhaustedEndsOnResponseOnly ==
    [][ Exhausted(lim, clock) =>
          /\ lop' = "update_from_response" => ~Exhausted(lim', clock')
          /\ lop' = "tick" => Exhausted(lim', clock')
      ]_vars

\* C29 (amended): the recorded fields change in update_from_response only,
\* never with time. An exhausted limiter stops being exhausted when a
\* response carries a parsable remaining above 0 or a parsable reset not later
\* than now, whether or not the wait elapsed, and when the clock reaches
\* reset_at; a response carrying neither leaves it exhausted.
C29_ExhaustedEnds ==
    [][ /\ lop' # "update_from_response" => lim' = lim
        /\ Exhausted(lim, clock) =>
              /\ lop' = "update_from_response" =>
                    ( ~Exhausted(lim', clock') <=>
                        \/ lhdr'.remaining > 0
                        \/ lhdr'.reset >= 0 /\ lhdr'.reset <= clock )
              /\ lop' = "tick" =>
                    ( ~Exhausted(lim', clock') <=> lim.reset_at <= clock + 1 )
      ]_vars

\* a response carrying remaining = 1 reached a limiter that was exhausted, one
\* second before the recorded reset: check_limit now returns None
C29_Witness ==
    /\ lop = "update_from_response"
    /\ lwas
    /\ lhdr = [limit |-> None, remaining |-> 1, reset |-> None]
    /\ lim.reset_at = 2 /\ clock = 1
    /\ ~Exhausted(lim, clock)

-----------------------------------------------------------------------------
(* Properties of the status match and of is_retryable (checked under SpecPure) *)

\* C14: every response status is classified into one typed outcome: 401 ->
\* AuthenticationFailed, 404 -> NotFound, 400 -> BadRequest, 429 ->
\* RateLimitExceeded with the integer of the retry-after header or 60 when the
\* header is absent or unparsable, 5xx -> ServerError with that status, 2xx ->
\* the decoded body or InvalidResponse, any other status -> ServerError with
\* that status.
C14_StatusClassification ==
    fop = "classify" =>
        LET st == fin.status
        IN  CASE st = 401 -> fout.kind = "AuthenticationFailed"
              [] st = 404 -> fout.kind = "NotFound"
              [] st = 400 -> fout.kind = "BadRequest"
              [] st = 429 ->
                    /\ fout.kind = "RateLimitExceeded"
                    /\ fout.retry_after =
                          IF fin.retry_after \in {None, Unparsable}
                          THEN 60 ELSE fin.retry_after
              [] st \in 500..599 ->
                    fout.kind = "ServerError" /\ fout.status = st
              [] st \in 200..299 ->
                    fout.kind = IF fin.decodes THEN "Ok" ELSE "InvalidResponse"
              [] OTHER -> fout.kind = "ServerError" /\ fout.status = st

\* a 429 whose retry-after header does not parse got the default of 60
C14_Witness ==
    /\ fop = "classify"
    /\ fin.status = 429 /\ fin.retry_after = Unparsable
    /\ fout.kind = "RateLimitExceeded" /\ fout.retry_after = 60

\* C16: is_retryable is true exactly for RateLimitExceeded, ServerError with a
\* 5xx status and Timeout, and false for every other error.
C16_RetryableExactly ==
    fop = "is_retryable" =>
        (fout <=> \/ fin.e.kind = "RateLimitExceeded"
                  \/ fin.e.kind = "ServerError" /\ fin.e.status \in 500..599
                  \/ fin.e.kind = "Timeout")

\* C21: has_next resolves in a fixed order for every combination of present
\* and absent fields: with is_last present the result is !is_last, whatever
\* the offsets say; else with start_at, max_results and total all present it
\* is start_at + max_results < total; else it is false.
C21_HasNextOrder ==
    fop = "has_next" =>
        LET pg == fin.page
        IN  fout = CASE pg.is_last # "absent" -> pg.is_last = "false"
                     [] pg.is_last = "absent" /\ pg.start_at # None
                           /\ pg.max_results # None /\ pg.total # None ->
                           pg.start_at + pg.max_results < pg.total
                     [] OTHER -> FALSE

\* is_last = true wins over offsets that leave items to fetch
C21_Witness ==
    /\ fop = "has_next"
    /\ fin.page.is_last = "true"
    /\ fin.page.start_at = 0 /\ fin.page.max_results = 2 /\ fin.page.total = 5
    /\ fout = FALSE

-----------------------------------------------------------------------------
(* Properties of the Paginator (checked under SpecPage) *)

\* the pages fetch_page has returned in this run
Fetched == IF ppc = "fetching" THEN Len(offsets) - 1 ELSE Len(offsets)

\* the values of the first k pages of the run, in page order
RECURSIVE ConcatPages(_)
ConcatPages(k) == IF k = 0 THEN <<>> ELSE ConcatPages(k - 1) \o PageOf(k).values

Min(a, b) == IF a <= b THEN a ELSE b
Prefix(seq, n) == SubSeq(seq, 1, Min(n, Len(seq)))

\* C18: fetch_all starts at offset 0, appends each page's values in page
\* order, and stops at the first page for which has_next() is false or which
\* holds no item: it fetches on only after pages that have a next page and
\* hold items, and it returns the concatenation of the values of exactly the
\* pages fetched, the last of which is the stopping page.
C18_FetchAll ==
    p_op = "fetch_all" =>
        /\ offsets # <<>> => offsets[1] = 0
        /\ all_items = ConcatPages(Fetched)
        /\ \A k \in 1..Fetched :
              (k < Len(offsets) \/ ppc = "loop") =>
                  /\ PageOf(k).ok
                  /\ has_next(PageOf(k))
                  /\ Len(PageOf(k).values) > 0
        /\ (ppc = "returned" /\ pret.kind = "Ok") =>
              /\ Fetched = Len(offsets)
              /\ pret.items = ConcatPages(Len(offsets))
              /\ \/ ~has_next(PageOf(Len(offsets)))
                 \/ Len(PageOf(Len(offsets)).values) = 0

\* the three-page example: 3 calls and [1,2,3,4,5]
C18_Witness ==
    /\ p_op = "fetch_all"
    /\ ppc = "returned"
    /\ offsets = <<0, 2, 4>>
    /\ pret = Ok(<<1, 2, 3, 4, 5>>)

\* C19: collect_pages with limit Some(L) returns the first min(L, available)
\* items in page order, a prefix of what fetch_all returns on the same source,
\* and issues no fetch_page call after the page whose values bring the
\* accumulated count to at least L.
C19_CollectLimit ==
    (p_op = "collect_pages" /\ p_limit # None) =>
        /\ \A k \in 2..Len(offsets) : Len(ConcatPages(k - 1)) < p_limit
        /\ (ppc = "returned" /\ pret.kind = "Ok") =>
              LET available == ConcatPages(Len(offsets))
              IN  /\ pret.items = Prefix(available, p_limit)
                  /\ Len(available) < p_limit =>
                        \/ ~has_next(PageOf(Len(offsets)))
                        \/ Len(PageOf(Len(offsets)).values) = 0
                  /\ (prev.op = "fetch_all" /\ prev.ret.kind = "Ok") =>
                        pret.items = Prefix(prev.ret.items, p_limit)

\* the three-page example with L = 3: [1,2,3] after 2 calls, where fetch_all
\* had returned [1,2,3,4,5]
C19_Witness ==
    /\ p_op = "collect_pages" /\ p_limit = 3
    /\ ppc = "returned"
    /\ pret = Ok(<<1, 2, 3>>)
    /\ Len(offsets) = 2
    /\ prev.op = "fetch_all" /\ prev.ret = Ok(<<1, 2, 3, 4, 5>>)

\* C20: the stream is lazy: a fetch_page call is issued only in a step in
\* which the consumer pulls, so the calls never outnumber the pulls, and a
\* stream that was dropped issues none.
C20_StreamLazy ==
    [][ (p_op \in {"stream", "collect_pages"} /\ p_run' = p_run) =>
          /\ Len(offsets') > Len(offsets) =>
                (pulls' = pulls + 1 /\ Len(offsets') = Len(offsets) + 1)
          /\ Len(offsets') <= pulls'
          /\ ppc = "dropped" => offsets' = offsets
      ]_vars

\* a stream dropped after the yield of a page that has a next page: one pull,
\* one fetch_page call
C20_Witness ==
    /\ p_op = "stream"
    /\ ppc = "dropped"
    /\ pulls = 1 /\ Len(offsets) = 1
    /\ <<0, p_max>> \in DOMAIN src
    /\ has_next(PageOf(1)) /\ Len(PageOf(1).values) > 0
    /\ yields = 1

-----------------------------------------------------------------------------
(* Properties of concurrent callers of one ApiClient (checked under SpecConc) *)

\* C25: the rate-limit state is read (check_limit) before every request sent,
\* each retry attempt included: whenever a task has an attempt in flight, it
\* has called check_limit since the last response it received.
C25_ReadBeforeEveryAttempt ==
    \A t \in Callers : c_pc[t] = "sending" => c_fresh[t]

\* C26: a caller that found the limit exhausted and slept checks the
\* rate-limit state again when it wakes, before it sends: by the time its
\* attempt is in flight it has called check_limit at least twice.
C26_RecheckOnWake ==
    \A t \in Callers : (c_pc[t] = "sending" /\ c_slept[t]) => c_reads[t] >= 2

\* C27: the Mutex is held only inside update_from_response, check_limit or
\* get_info: no task holds it while it sleeps (rate-limit wait or backoff) or
\* while its send is pending, so whenever another task waits for the Mutex it
\* is free or its holder is inside one of the three methods.
C27_LockHeldOnlyInsideMethods ==
    /\ c_holder # NoTask => c_pc[c_holder] \in {"check_limit", "update", "get_info"}
    /\ \A t \in Callers :
          c_pc[t] \in {"rate_limit_sleep", "backoff", "sending"} => c_holder # t
    /\ \A t, u \in Callers :
          (/\ c_pc[t] \in {"rate_limit_sleep", "backoff", "sending"}
           /\ c_pc[u] \in {"check_limit_lock", "update_lock", "get_info_lock"}) =>
             \/ c_holder = NoTask
             \/ c_holder # t /\ c_pc[c_holder] \in {"check_limit", "update", "get_info"}

\* one task is in its rate-limit sleep while the other holds the Mutex inside
\* update_from_response
C27_Witness ==
    /\ c_pc[1] = "rate_limit_sleep"
    /\ c_pc[2] = "update"
    /\ c_holder = 2

-----------------------------------------------------------------------------
(* Properties of the backoff intervals and of next_start (checked under SpecPure) *)

RECURSIVE Pow(_, _)
Pow(b, e) == IF e = 0 THEN 1 ELSE b * Pow(b, e - 1)

C32_NextStartWheneverPresent ==
    fop = "next_start" =>
        /\ fout.next_start =
              IF fin.page.start_at # None /\ fin.page.max_results # None
              THEN fin.page.start_at + fin.page.max_results
              ELSE None
        /\ fout.next_start = None => fout.start_at = fout.cur + fout.req

\* C32 (amended): next_start is Some(start_at + max_results) when the page has
\* a next page (is_last false, or is_last absent and start_at + max_results <
\* total) and both fields are present, and None otherwise; a loop that goes
\* on takes it as its next offset, or on None the requested offset plus the
\* requested page size.
C32_NextStartWhenHasNext ==
    fop = "next_start" =>
        LET pg == fin.page
            both == pg.start_at # None /\ pg.max_results # None
            more == \/ pg.is_last = "false"
                    \/ /\ pg.is_last = "absent"
                       /\ both /\ pg.total # None
                       /\ pg.start_at + pg.max_results < pg.total
        IN  /\ fout.next_start =
                  IF more /\ both THEN pg.start_at + pg.max_results ELSE None
            /\ fout.start_at =
                  IF fout.next_start # None THEN fout.next_start
                  ELSE fout.cur + fout.req

\* a last page carrying start_at 2 and max_results 2: next_start is None,
\* not Some(4)
C32_Witness ==
    /\ fop = "next_start"
    /\ fin.page.is_last = "true"
    /\ fin.page.start_at = 2 /\ fin.page.max_results = 2
    /\ fout.next_start = None

-----------------------------------------------------------------------------
(* Properties of the RateLimiter under concurrent calls (checked under SpecMutex) *)

Triple(h) == [remaining |-> h.remaining, limit |-> h.limit, reset_at |-> h.reset]
WholeStates == {NewRateLimitState} \cup {Triple(h) : h \in FullHeaders}
Writing(t) == m_pc[t] \in {"write_limit", "write_remaining", "write_reset_at"}

\* C36: update_from_response is atomic towards concurrent update_from_response,
\* check_limit and get_info calls on the same RateLimiter: with responses that
\* carry all three headers, an update that returns leaves its own full triple,
\* the state between updates is the triple of one response, never a mixture,
\* and what check_limit or get_info reads is never a half-applied update.
C36_UpdateAtomic ==
    /\ []( (\A t \in Callers : ~Writing(t)) => m_state \in WholeStates )
    /\ []( \A t \in Callers :
              \/ m_seen[t] = NothingSeen
              \/ \E w \in WholeStates :
                    /\ m_seen[t].remaining = w.remaining
                    /\ m_seen[t].reset_at = w.reset_at
                    /\ m_seen[t].by = "get_info" => m_seen[t].limit = w.limit )
    /\ [][ \A t \in Callers :
              (m_pc[t] = "write_reset_at" /\ m_pc'[t] = "returned") =>
                  m_state' = Triple(m_hdr[t]) ]_vars

\* task 1 has written the limit of its response over the triple of an
\* earlier one while task 2 waits for the lock with another response, having
\* read the state with get_info before
C36_Witness ==
    /\ m_pc[1] = "write_remaining"
    /\ m_pc[2] = "update_lock"
    /\ m_hdr[1] = [limit |-> 2, remaining |-> 0, reset |-> 2]
    /\ m_hdr[2] = [limit |-> 1, remaining |-> 1, reset |-> 1]
    /\ m_state = [remaining |-> 1, limit |-> 2, reset_at |-> 1]
    /\ m_seen[2].by = "get_info"

-----------------------------------------------------------------------------
(* Further properties of pagination (checked under SpecPage) *)

\* C38: within one fetch_all or stream run the offsets passed to successive
\* fetch_page calls are strictly increasing, whatever metadata the pages
\* carry, so no offset is asked twice.
C38_OffsetsStrictlyIncrease ==
    p_op \in {"fetch_all", "stream"} =>
        \A k \in 1..(Len(offsets) - 1) : offsets[k] < offsets[k + 1]

\* a source whose pages all say start_at 0: fetch_all asks offset 2 twice
C38_Witness ==
    /\ p_op = "fetch_all"
    /\ p_max = 2
    /\ offsets = <<0, 2, 2>>
    /\ PageOf(2).start_at = 0

\* C39: a failed fetch_page is the last fetch_page call of its run: fetch_all
\* and collect_pages return the error and none of the items of the earlier
\* pages, and the stream yields it as its last element and ends at the next
\* poll.
C39_ErrorStopsFetching ==
    LET answered == IF ppc = "fetching" THEN Len(offsets) - 1
                    ELSE IF ppc = "dropped" THEN yields
                    ELSE Len(offsets)
    IN  /\ \A k \in 1..answered : ~PageOf(k).ok => k = Len(offsets)
        /\ (answered > 0 /\ ~PageOf(answered).ok) =>
              /\ p_op \in {"fetch_all", "collect_pages"} =>
                    ppc = "returned" /\ pret = Err
              /\ p_op = "stream" =>
                    /\ ppc \in {"yielded", "ended", "dropped"}
                    /\ yields = Len(offsets)
        /\ pret = Err => (answered > 0 /\ ~PageOf(answered).ok)

\* a stream whose second page failed: two elements yielded, and the third
\* poll found the stream ended after two fetch_page calls
C39_Witness ==
    /\ p_op = "stream"
    /\ ppc = "ended"
    /\ Len(offsets) = 2
    /\ PageOf(1).ok /\ ~PageOf(2).ok
    /\ yields = 2 /\ pulls = 3

\* C40: collect_pages with limit None does what fetch_all does on the same
\* paginator and page size: the same fetch_page offsets in the same order and
\* the same items, or the error.
C40_CollectNoneIsFetchAll ==
    LET this == [op |-> p_op, limit |-> p_limit, offsets |-> offsets, ret |-> pret]
        Same(a, b) ==
            ( /\ a.op = "fetch_all"
              /\ b.op = "collect_pages" /\ b.limit = None ) =>
                /\ a.offsets = b.offsets
                /\ a.ret = b.ret
    IN  (ppc = "returned" /\ prev.op # "none" /\ prev.max = p_max) =>
            /\ Same(prev, this)
            /\ Same(this, prev)

\* the three-page example: collect_pages without a limit after fetch_all, both
\* with offsets 0, 2, 4 and [1,2,3,4,5]
C40_Witness ==
    /\ p_op = "collect_pages" /\ p_limit = None
    /\ ppc = "returned"
    /\ prev.op = "fetch_all"
    /\ offsets = <<0, 2, 4>> /\ prev.offsets = <<0, 2, 4>>
    /\ pret = Ok(<<1, 2, 3, 4, 5>>) /\ prev.ret = pret

====
